---------------------------- MODULE Spec2Model ----------------------------
(* data-visor: state-machine model of the background task engine, the      *)
(* column store mutations, the ingestion generator and the triage overlay. *)
(*                                                                         *)
(* Several specifications share one set of variables; each specification   *)
(* drives one subsystem and leaves the variables of the others unchanged:  *)
(*   SpecTasks      launch handlers and background workers                 *)
(*   SpecStream     a task run observed by a progress stream               *)
(*   SpecIngest     ingestion requests, one after the other                *)
(*   SpecStore      every store-mutating request on an empty store         *)
(*   SpecCounts     the requests that maintain the dataset counters        *)
(*   SpecOverrides  annotation-triage requests, one after the other        *)
(*   SpecTriage     concurrent annotation-triage and triage-tag requests   *)
(*   SpecTags       SpecTriage with the bulk tag requests                  *)
(*   SpecClose      an ingestion stream the client may close early         *)
(*   SpecNearDup    the near-duplicate scan and its grouping               *)
(*   SpecImport     prediction imports, repeated under one run name        *)
(*   SpecEvaluation matching and error categorisation of one sample        *)
(*   SpecPlugins    plugin registration and hook dispatch                  *)
(*   SpecBoxes      every request that stores an annotation box            *)
(*   SpecRanking    the worst-image ranking over categorised samples       *)
(*   SpecVectors    embed runs followed by similarity queries              *)
(*   SpecRelaunch   embed launches one after the other, with a stream      *)
(*                                                                         *)
(* The source calls COCOParser.build_annotation_batches with a split       *)
(* keyword its definition does not declare; the model follows the flow of  *)
(* IngestionService with the batching of COCOParser.                       *)
EXTENDS Integers, Sequences, FiniteSets, TLC

(***************************************************************************)
(* Bounds                                                                  *)
(***************************************************************************)
\* number of launch requests accepted in one behaviour
MaxLaunch == 2
\* number of task runs a progress stream observes
MaxStreamRuns == 1
\* largest number of sample rows of a dataset
MaxSamples == 2
\* rows fetched per batch by the embed worker (32 in the source, scaled)
BATCH_SIZE == 1
\* rows fetched per batch by the auto-tag worker (50 in the source, scaled)
TAG_BATCH == 2
\* rows per batch of the COCO parser (1000 in the source, scaled)
COCO_BATCH == 2
\* ingestion requests served in one behaviour of SpecIngest
MaxIngests == 2
\* requests served in one behaviour of SpecStore
MaxRequests == 3
\* requests served in one behaviour of the triage specifications
MaxTriage == 3
\* plugins the registry may hold
MaxPlugins == 3
\* entries kept per error type in samples_by_type (50 in the source, scaled)
MAX_SAMPLES_PER_TYPE == 2
\* annotation-triage handlers that may be in flight together
MaxInFlight == 2
\* annotation ids the annotation-triage requests name
MaxOverrideAnnotations == 2
\* points of the vector collection scanned for near duplicates
MaxPoints == 3
\* ground-truth boxes of the evaluated sample
MaxGt == 2
\* predicted boxes of the evaluated sample
MaxPred == 2

DatasetIds == {"d1", "d2"}
TaskKinds == {"embed", "reduce", "near_duplicate", "auto_tag"}

VARIABLES
    progress,      \* [kind -> [dataset -> progress record or NoTask]]: the services' _tasks dicts
    workers,       \* sequence of background task records, one per accepted launch
    snapshot,      \* the record most recently dumped by a progress stream
    lastResponse,  \* status code answered to the most recent launch request (0: none yet)
    datasets,      \* [dataset id -> NoDataset or the dataset row with its stored counters]
    samples,       \* rows of the samples table (no primary key: rid tells equal rows apart)
    embeddings,    \* [dataset -> [sample id -> number of embedding rows]]
    reduced,       \* [dataset -> set of sample ids whose x, y are non-null]
    collection,    \* [dataset -> [exists, points]]: the vector collection embeddings_<dataset>
    annotations,   \* rows of the annotations table
    categories,    \* rows of the categories table
    savedViews,    \* rows of the saved_views table
    overrides,     \* rows of the annotation_triage table
    nextRid,       \* rows inserted so far (gives every inserted row its identity)
    allocated,     \* dataset ids handed out so far (uuid4 never repeats one)
    served,        \* requests accepted so far
    ingest,        \* the ingestion generator: position, inputs and local counters
    events,        \* progress events yielded to the client of the current ingestion request
    requests,      \* annotation-triage handlers in flight, one slot per request thread
    hooks,         \* plugin hooks dispatched by the current ingestion request, in order
    scan,          \* find_near_duplicates: the points, the query answers, parent, the result
    evaluation,    \* the evaluation services: boxes of one sample and the matchers' results
    lastImport,    \* history: the latest prediction-import request and the store it left
    lastBulk,      \* history: the latest bulk-tag request, the sample rows before and after it
    plugins,       \* the plugin registry and the trigger_hook call in progress
    worst          \* compute_worst_images: the samples, samples_by_type and the scores

engineVars == <<progress, workers, snapshot, lastResponse>>
vectorVars == <<embeddings, reduced, collection>>
tableVars == <<annotations, categories, savedViews, overrides>>
ingestVars == <<ingest, events, allocated, hooks>>
calcVars == <<scan, evaluation, lastImport, lastBulk, plugins, worst>>
storeVars == <<tableVars, ingestVars, nextRid, served, requests, calcVars>>
vars == <<progress, workers, snapshot, lastResponse, datasets, samples,
          embeddings, reduced, collection, annotations, categories, savedViews,
          overrides, nextRid, allocated, served, ingest, events, requests, hooks,
          scan, evaluation, lastImport, lastBulk, plugins, worst>>

NoDataset == [image_count |-> -1, annotation_count |-> -1,
              category_count |-> -1, prediction_count |-> -1]
NoTask == [status |-> "none", processed |-> 0, total |-> 0, message |-> ""]
SampleIds == 1..MaxSamples

(***************************************************************************)
(* Progress records                                                        *)
(***************************************************************************)
\* EmbeddingProgress / TaggingProgress / ReductionProgress / NearDuplicateProgress
Progress(s, p, t, m) == [status |-> s, processed |-> p, total |-> t, message |-> m]

\* get_progress: the dict entry, or a fresh idle record when there is none
get_progress(kind, d) ==
    IF progress[kind][d] = NoTask
    THEN Progress("idle", 0, 0, IF kind = "near_duplicate" THEN "Not started" ELSE "")
    ELSE progress[kind][d]

\* is_running / is_near_dupe_running
RunningStatuses(kind) ==
    CASE kind = "embed" -> {"running"}
      [] kind = "auto_tag" -> {"running"}
      [] kind = "reduce" -> {"running", "fitting"}
      [] kind = "near_duplicate" -> {"scanning", "grouping"}

is_running(kind, d) ==
    /\ progress[kind][d] # NoTask
    /\ progress[kind][d].status \in RunningStatuses(kind)

SetProgress(kind, d, rec) == progress' = [progress EXCEPT ![kind][d] = rec]
SetField(kind, d, f, v) == progress' = [progress EXCEPT ![kind][d][f] = v]

\* rows of "SELECT ... FROM samples WHERE dataset_id = ?"
SampleRows(d) == {r \in samples : r.ds = d}

\* position of a row under ORDER BY id (rows of equal id in row order)
RowRank(d, r) ==
    Cardinality({q \in SampleRows(d) : q.id < r.id \/ (q.id = r.id /\ q.rid < r.rid)})

\* rows of "... ORDER BY id LIMIT ? OFFSET ?"
FetchBatch(d, limit, offset) ==
    {r \in SampleRows(d) : RowRank(d, r) >= offset /\ RowRank(d, r) < offset + limit}

Min(a, b) == IF a < b THEN a ELSE b

(***************************************************************************)
(* Launch handlers (routers/embeddings.py, routers/similarity.py,          *)
(* routers/vlm.py): check is_running, check the precondition, add_task.    *)
(***************************************************************************)
NewWorker(kind, d) ==
    [kind |-> kind, ds |-> d, pc |-> "queued", total |-> 0, offset |-> 0, pending |-> {}]

RECURSIVE SumOver(_, _)
SumOver(f, S) ==
    IF S = {} THEN 0
    ELSE LET s == CHOOSE x \in S : TRUE
         IN f[s] + SumOver(f, S \ {s})

\* SELECT COUNT(*) FROM embeddings WHERE dataset_id = ?
EmbeddingRowCount(d) == SumOver(embeddings[d], SampleIds)

\* the handler's precondition after the is_running check
LaunchPrecondition(kind, d) ==
    IF kind = "reduce" THEN EmbeddingRowCount(d) > 0 ELSE datasets[d] # NoDataset

LaunchAccepted(kind, d, limit) ==
    /\ Len(workers) < limit
    /\ ~is_running(kind, d)
    /\ LaunchPrecondition(kind, d)
    /\ workers' = Append(workers, NewWorker(kind, d))
    /\ lastResponse' = 202
    /\ UNCHANGED <<progress, snapshot, datasets, samples, vectorVars, storeVars>>

LaunchConflict(kind, d) ==
    /\ is_running(kind, d)
    /\ lastResponse' = 409
    /\ UNCHANGED <<progress, workers, snapshot, datasets, samples, vectorVars, storeVars>>

LaunchRejected(kind, d) ==
    /\ ~is_running(kind, d)
    /\ ~LaunchPrecondition(kind, d)
    /\ lastResponse' = (IF kind = "reduce" THEN 400 ELSE 404)
    /\ UNCHANGED <<progress, workers, snapshot, datasets, samples, vectorVars, storeVars>>

(***************************************************************************)
(* Worker steps shared by the services                                     *)
(***************************************************************************)
SetPc(w, pc) == workers' = [workers EXCEPT ![w].pc = pc]

\* first statement of every background task: publish a fresh running record
WorkerStart(w) ==
    LET k == workers[w].kind
        d == workers[w].ds
    IN /\ workers[w].pc = "queued"
       /\ SetProgress(k, d,
             CASE k = "embed" -> Progress("running", 0, 0, "")
               [] k = "auto_tag" -> Progress("running", 0, 0, "")
               [] k = "reduce" -> Progress("running", 0, 0, "Loading embeddings from database")
               [] k = "near_duplicate" -> Progress("scanning", 0, 0, "Preparing..."))
       /\ SetPc(w, IF k = "near_duplicate" THEN "ensure" ELSE "cursor")
       /\ UNCHANGED <<snapshot, lastResponse, datasets, samples, vectorVars, storeVars>>

\* cursor = self.db.connection.cursor(), the statement before the try block:
\* it returns, or it raises and the exception leaves the task function
WorkerCursor(w) ==
    /\ workers[w].kind \in {"embed", "reduce", "auto_tag"}
    /\ workers[w].pc = "cursor"
    /\ \E raised \in BOOLEAN :
          SetPc(w, IF raised THEN "done"
                   ELSE IF workers[w].kind = "reduce" THEN "select" ELSE "count")
    /\ UNCHANGED <<progress, snapshot, lastResponse, datasets, samples, vectorVars, storeVars>>

\* except Exception as e: status = "error"; message = str(e)  (two attribute writes)
WorkerExceptStatus(w) ==
    /\ workers[w].kind \in {"embed", "auto_tag"}
    /\ workers[w].pc = "except"
    /\ SetField(workers[w].kind, workers[w].ds, "status", "error")
    /\ SetPc(w, "except_msg")
    /\ UNCHANGED <<snapshot, lastResponse, datasets, samples, vectorVars, storeVars>>

WorkerExceptMessage(w) ==
    /\ workers[w].kind \in {"embed", "auto_tag"}
    /\ workers[w].pc = "except_msg"
    /\ SetField(workers[w].kind, workers[w].ds, "message", "str(e)")
    /\ SetPc(w, "done")
    /\ UNCHANGED <<snapshot, lastResponse, datasets, samples, vectorVars, storeVars>>

\* COUNT(*) of the samples; total == 0 leads to the early "complete" branch
WorkerCount(w) ==
    LET k == workers[w].kind
        d == workers[w].ds
    IN /\ k \in {"embed", "auto_tag"}
       /\ workers[w].pc = "count"
       /\ \E raised \in BOOLEAN :
            IF raised
            THEN /\ SetPc(w, "except")
                 /\ UNCHANGED progress
            ELSE LET total == Cardinality(SampleRows(d))
                 IN /\ SetField(k, d, "total", total)
                    /\ workers' = [workers EXCEPT
                           ![w].total = total,
                           ![w].pc = IF total = 0 THEN "empty_status"
                                     ELSE IF k = "embed" THEN "delete" ELSE "batch"]
       /\ UNCHANGED <<snapshot, lastResponse, datasets, samples, vectorVars, storeVars>>

\* if total == 0: status = "complete"; message = "No samples ..."; return
WorkerEmptyStatus(w) ==
    /\ workers[w].pc = "empty_status"
    /\ SetField(workers[w].kind, workers[w].ds, "status", "complete")
    /\ SetPc(w, "empty_msg")
    /\ UNCHANGED <<snapshot, lastResponse, datasets, samples, vectorVars, storeVars>>

WorkerEmptyMessage(w) ==
    /\ workers[w].pc = "empty_msg"
    /\ SetField(workers[w].kind, workers[w].ds, "message", "No samples")
    /\ SetPc(w, "done")
    /\ UNCHANGED <<snapshot, lastResponse, datasets, samples, vectorVars, storeVars>>

\* status = "complete"; processed = total; message = "..."  (three attribute writes)
WorkerCompleteStatus(w) ==
    /\ workers[w].kind \in {"embed", "auto_tag"}
    /\ workers[w].pc = "complete_status"
    /\ SetField(workers[w].kind, workers[w].ds, "status", "complete")
    /\ SetPc(w, "complete_processed")
    /\ UNCHANGED <<snapshot, lastResponse, datasets, samples, vectorVars, storeVars>>

WorkerCompleteProcessed(w) ==
    /\ workers[w].pc = "complete_processed"
    /\ SetField(workers[w].kind, workers[w].ds, "processed", workers[w].total)
    /\ SetPc(w, "complete_msg")
    /\ UNCHANGED <<snapshot, lastResponse, datasets, samples, vectorVars, storeVars>>

WorkerCompleteMessage(w) ==
    /\ workers[w].pc = "complete_msg"
    /\ SetField(workers[w].kind, workers[w].ds, "message", "done")
    /\ SetPc(w, "done")
    /\ UNCHANGED <<snapshot, lastResponse, datasets, samples, vectorVars, storeVars>>

(***************************************************************************)
(* EmbeddingService.generate_embeddings                                    *)
(***************************************************************************)
\* DELETE FROM embeddings WHERE dataset_id = ?
EmbedDelete(w) ==
    LET d == workers[w].ds
    IN /\ workers[w].kind = "embed"
       /\ workers[w].pc = "delete"
       /\ \E raised \in BOOLEAN :
            IF raised
            THEN /\ SetPc(w, "except")
                 /\ UNCHANGED <<embeddings, reduced>>
            ELSE /\ embeddings' = [embeddings EXCEPT ![d] = [s \in SampleIds |-> 0]]
                 /\ reduced' = [reduced EXCEPT ![d] = {}]
                 /\ SetPc(w, "batch")
       /\ UNCHANGED <<progress, snapshot, lastResponse, datasets, samples, collection, storeVars>>

\* one pass of "while offset < total": fetch a batch, load the images that
\* can be loaded, run the model, insert one row per loaded image, advance
EmbedBatch(w) ==
    LET d == workers[w].ds
        rows == FetchBatch(d, BATCH_SIZE, workers[w].offset)
        offset2 == workers[w].offset + BATCH_SIZE
    IN /\ workers[w].kind = "embed"
       /\ workers[w].pc = "batch"
       /\ IF workers[w].offset >= workers[w].total \/ rows = {}
          THEN /\ SetPc(w, "complete_status")
               /\ UNCHANGED <<progress, embeddings>>
          ELSE \E loaded \in SUBSET {r.id : r \in rows} : \E raised \in BOOLEAN :
                 IF raised
                 THEN /\ SetPc(w, "except")
                      /\ UNCHANGED <<progress, embeddings>>
                 ELSE /\ embeddings' = [embeddings EXCEPT ![d] =
                            [s \in SampleIds |-> IF s \in loaded THEN @[s] + 1 ELSE @[s]]]
                      /\ SetField("embed", d, "processed", Min(offset2, workers[w].total))
                      /\ workers' = [workers EXCEPT ![w].offset = offset2]
       /\ UNCHANGED <<snapshot, lastResponse, datasets, samples, reduced, collection, storeVars>>

(***************************************************************************)
(* VLMService.generate_tags                                                *)
(***************************************************************************)
\* vocabulary tag produced by tag_image
VocabTag == "bright"

\* one pass of "while offset < total": fetch the rows of the batch
TagBatch(w) ==
    LET d == workers[w].ds
        rows == FetchBatch(d, TAG_BATCH, workers[w].offset)
    IN /\ workers[w].kind = "auto_tag"
       /\ workers[w].pc = "batch"
       /\ \E raised \in BOOLEAN :
            IF workers[w].offset >= workers[w].total
            THEN /\ ~raised
                 /\ SetPc(w, "complete_status")
            ELSE IF raised THEN SetPc(w, "except")
            ELSE IF rows = {} THEN SetPc(w, "complete_status")
            ELSE workers' = [workers EXCEPT ![w].pending = {r.rid : r \in rows},
                                            ![w].pc = "sample"]
       /\ UNCHANGED <<progress, snapshot, lastResponse, datasets, samples, vectorVars, storeVars>>

\* body of "for sample_id, file_name, image_dir in rows": tag the image and
\* merge the tags (a failure is logged and skipped), then processed += 1
TagSample(w) ==
    LET d == workers[w].ds
        pend == workers[w].pending
    IN /\ workers[w].kind = "auto_tag"
       /\ workers[w].pc = "sample"
       /\ pend # {}
       /\ LET rid == CHOOSE x \in pend : \A y \in pend : x <= y
              rest == pend \ {rid}
              sid == IF \E r \in samples : r.rid = rid
                     THEN (CHOOSE r \in samples : r.rid = rid).id ELSE 0
          IN /\ \E tagged \in BOOLEAN :
                  samples' = IF tagged
                             THEN {IF r.ds = d /\ r.id = sid
                                   THEN [r EXCEPT !.tags = @ \cup {VocabTag}] ELSE r
                                   : r \in samples}
                             ELSE samples
             /\ SetField("auto_tag", d, "processed", progress["auto_tag"][d].processed + 1)
             /\ workers' = [workers EXCEPT
                    ![w].pending = rest,
                    ![w].offset = IF rest = {} THEN @ + TAG_BATCH ELSE @,
                    ![w].pc = IF rest = {} THEN "batch" ELSE "sample"]
       /\ UNCHANGED <<snapshot, lastResponse, datasets, vectorVars, storeVars>>

(***************************************************************************)
(* ReductionService.reduce_embeddings: every update replaces the record    *)
(***************************************************************************)
\* SELECT sample_id, vector FROM embeddings WHERE dataset_id = ?
ReduceSelect(w) ==
    LET d == workers[w].ds
        sids == {s \in SampleIds : embeddings[d][s] > 0}
    IN /\ workers[w].kind = "reduce"
       /\ workers[w].pc = "select"
       /\ \E raised \in BOOLEAN :
            IF raised
            THEN /\ SetProgress("reduce", d, Progress("error", 0, 0, "str(e)"))
                 /\ SetPc(w, "done")
            ELSE IF sids = {}
            THEN /\ SetProgress("reduce", d, Progress("error", 0, 0, "No embeddings found"))
                 /\ SetPc(w, "done")
            ELSE /\ SetProgress("reduce", d, Progress("fitting", 0, 0, "Running UMAP"))
                 /\ workers' = [workers EXCEPT ![w].pending = sids, ![w].pc = "fit"]
       /\ UNCHANGED <<snapshot, lastResponse, datasets, samples, vectorVars, storeVars>>

\* reducer.fit_transform, then the UPDATE of x, y for every selected sample,
\* then the "complete" record; an exception anywhere gives the "error" record
ReduceFit(w) ==
    LET d == workers[w].ds
    IN /\ workers[w].kind = "reduce"
       /\ workers[w].pc = "fit"
       /\ \E raised \in BOOLEAN :
            IF raised
            THEN /\ SetPc(w, "done")
                 /\ SetProgress("reduce", d, Progress("error", 0, 0, "str(e)"))
                 /\ UNCHANGED reduced
            ELSE /\ SetPc(w, "update")
                 /\ UNCHANGED <<progress, reduced>>
       /\ UNCHANGED <<snapshot, lastResponse, datasets, samples, embeddings, collection, storeVars>>

ReduceUpdate(w) ==
    LET d == workers[w].ds
    IN /\ workers[w].kind = "reduce"
       /\ workers[w].pc = "update"
       /\ \E raised \in BOOLEAN : \E written \in SUBSET workers[w].pending :
            /\ reduced' = [reduced EXCEPT ![d] =
                              @ \cup {s \in written : embeddings[d][s] > 0}]
            /\ IF raised
               THEN SetProgress("reduce", d, Progress("error", 0, 0, "str(e)"))
               ELSE /\ written = workers[w].pending
                    /\ SetProgress("reduce", d, Progress("complete", 0, 0, "Reduced"))
            /\ SetPc(w, "done")
       /\ UNCHANGED <<snapshot, lastResponse, datasets, samples, embeddings, collection, storeVars>>

(***************************************************************************)
(* SimilarityService: ensure_collection and find_near_duplicates           *)
(***************************************************************************)
\* _sync_from_duckdb: one point per embedding row with a non-null vector
SyncedPoints(d) == [s \in SampleIds |-> embeddings[d][s]]

\* create the collection and sync it only when it does not exist yet
ensure_collection(d) ==
    IF collection[d].exists THEN collection[d]
    ELSE [exists |-> TRUE, points |-> SyncedPoints(d)]

PointCount(d) == SumOver(collection[d].points, SampleIds)

\* GET /datasets/{dataset_id}/similarity/search: the dataset check, then
\* find_similar, whose first statement is ensure_collection; the ranked
\* results are read from the collection and change nothing
search_similar(d, s, limit) ==
    /\ served < limit
    /\ served' = served + 1
    /\ IF datasets[d] = NoDataset
       THEN /\ lastResponse' = 404
            /\ UNCHANGED collection
       ELSE /\ lastResponse' = 200
            /\ collection' = [collection EXCEPT ![d] = ensure_collection(d)]
    /\ UNCHANGED <<progress, workers, snapshot, datasets, samples, embeddings, reduced,
                   tableVars, ingestVars, nextRid, requests, calcVars>>

NearDupError(w) ==
    /\ SetProgress("near_duplicate", workers[w].ds,
                   Progress("error", 0, 0, "Detection failed -- check server logs"))
    /\ SetPc(w, "done")

\* collection_name = self.ensure_collection(dataset_id)
NearDupEnsure(w) ==
    LET d == workers[w].ds
    IN /\ workers[w].kind = "near_duplicate"
       /\ workers[w].pc = "ensure"
       /\ \E raised \in BOOLEAN :
            IF raised
            THEN /\ NearDupError(w)
                 /\ UNCHANGED collection
            ELSE /\ collection' = [collection EXCEPT ![d] = ensure_collection(d)]
                 /\ SetPc(w, "scroll")
                 /\ UNCHANGED progress
       /\ UNCHANGED <<snapshot, lastResponse, datasets, samples, embeddings, reduced, storeVars>>

\* scroll all points; total == 0 completes at once, else publish the total
NearDupScroll(w) ==
    LET d == workers[w].ds
        total == PointCount(d)
    IN /\ workers[w].kind = "near_duplicate"
       /\ workers[w].pc = "scroll"
       /\ \E raised \in BOOLEAN :
            IF raised \/ ~collection[d].exists
            THEN NearDupError(w)
            ELSE IF total = 0
            THEN /\ SetProgress("near_duplicate", d,
                                Progress("complete", 0, 0, "No embeddings found"))
                 /\ SetPc(w, "done")
            ELSE /\ SetProgress("near_duplicate", d, Progress("scanning", 0, total, "Scanning"))
                 /\ workers' = [workers EXCEPT ![w].total = total, ![w].offset = 0,
                                               ![w].pc = "scan"]
       /\ UNCHANGED <<snapshot, lastResponse, datasets, samples, vectorVars, storeVars>>

\* progress is republished every SCAN_TICK points and on the last point
SCAN_TICK == 10

\* body of "for i, point in enumerate(all_points)": query the neighbours
NearDupScan(w) ==
    LET d == workers[w].ds
        i == workers[w].offset
        total == workers[w].total
    IN /\ workers[w].kind = "near_duplicate"
       /\ workers[w].pc = "scan"
       /\ \E raised \in BOOLEAN :
            IF raised \/ ~collection[d].exists
            THEN NearDupError(w)
            ELSE /\ IF i % SCAN_TICK = 0 \/ i = total - 1
                    THEN SetProgress("near_duplicate", d,
                                     Progress("scanning", i + 1, total, "Scanning"))
                    ELSE UNCHANGED progress
                 /\ workers' = [workers EXCEPT ![w].offset = i + 1,
                                   ![w].pc = IF i + 1 >= total THEN "group" ELSE "scan"]
       /\ UNCHANGED <<snapshot, lastResponse, datasets, samples, vectorVars, storeVars>>

\* the "grouping" record, then the cached result and the "complete" record
NearDupGroup(w) ==
    /\ workers[w].kind = "near_duplicate"
    /\ workers[w].pc = "group"
    /\ SetProgress("near_duplicate", workers[w].ds,
                   Progress("grouping", workers[w].total, workers[w].total, "Grouping duplicates..."))
    /\ SetPc(w, "finish")
    /\ UNCHANGED <<snapshot, lastResponse, datasets, samples, vectorVars, storeVars>>

NearDupFinish(w) ==
    /\ workers[w].kind = "near_duplicate"
    /\ workers[w].pc = "finish"
    /\ SetProgress("near_duplicate", workers[w].ds,
                   Progress("complete", workers[w].total, workers[w].total, "Found groups"))
    /\ SetPc(w, "done")
    /\ UNCHANGED <<snapshot, lastResponse, datasets, samples, vectorVars, storeVars>>

(***************************************************************************)
(* find_near_duplicates, the grouping itself (services/similarity_service) *)
(* The points of the collection and the answer of query_points for each    *)
(* point are the inputs; parent is the union-find dict, whose keys are the *)
(* DOMAIN of the function.                                                 *)
(***************************************************************************)
PointIds == 1..MaxPoints

\* parent.get(x, x)
ParentGet(parent, x) == IF x \in DOMAIN parent THEN parent[x] ELSE x

\* _find: the root of x and the dict after path compression
RECURSIVE find(_, _)
find(parent, x) ==
    IF ParentGet(parent, x) = x
    THEN [root |-> x, parent |-> parent]
    ELSE LET compressed == [parent EXCEPT ![x] = ParentGet(parent, parent[x])]
         IN find(compressed, compressed[x])

\* _union: parent[ra] = rb when the roots differ
union(parent, a, b) ==
    LET fa == find(parent, a)
        fb == find(fa.parent, b)
    IN IF fa.root # fb.root
       THEN (fa.root :> fb.root) @@ fb.parent
       ELSE fb.parent

IdleScan ==
    [pc |-> "idle", points |-> {}, answers |-> [p \in PointIds |-> {}], scanned |-> {},
     sid |-> 0, results |-> {}, parent |-> << >>, groups |-> {}]

\* the state when the scan loop is entered: all_points scrolled, parent = {}
ScanInputs ==
    {[IdleScan EXCEPT !.pc = "scan", !.points = pts, !.answers = ans] :
        pts \in SUBSET PointIds,
        ans \in [PointIds -> SUBSET PointIds]}

\* scroll and query_points answer with points of the collection only
ScanStates ==
    {st \in ScanInputs : \A p \in PointIds :
        st.answers[p] \subseteq (IF p \in st.points THEN st.points ELSE {})}

\* "for i, point in enumerate(all_points)": the next point and its query
ScanQuery ==
    /\ scan.pc = "scan"
    /\ scan.results = {}
    /\ \E p \in scan.points \ scan.scanned :
          scan' = [scan EXCEPT !.sid = p, !.scanned = @ \cup {p}, !.results = scan.answers[p]]
    /\ UNCHANGED <<engineVars, datasets, samples, vectorVars, tableVars, ingestVars, nextRid,
                   served, requests, evaluation, lastImport, lastBulk, plugins, worst>>

\* "for r in results": _union(parent, sid, r_sid) unless the result is the point
ScanUnion ==
    /\ scan.pc = "scan"
    /\ \E r_sid \in scan.results :
          scan' = [scan EXCEPT !.results = @ \ {r_sid},
                               !.parent = IF r_sid # scan.sid
                                          THEN union(@, scan.sid, r_sid) ELSE @]
    /\ UNCHANGED <<engineVars, datasets, samples, vectorVars, tableVars, ingestVars, nextRid,
                   served, requests, evaluation, lastImport, lastBulk, plugins, worst>>

\* groups_map: every scanned sample id that is a key of parent, under its root
groups_map(parent, all_sample_ids) ==
    LET keyed == all_sample_ids \cap DOMAIN parent
    IN [root \in {find(parent, sid).root : sid \in keyed} |->
           {sid \in keyed : find(parent, sid).root = root}]

\* the groups of size >= 2 (the response lists them by size, largest first)
NearDuplicateGroups(parent, all_sample_ids) ==
    LET gm == groups_map(parent, all_sample_ids)
    IN {gm[root] : root \in {r \in DOMAIN gm : Cardinality(gm[r]) >= 2}}

\* the grouping phase and the cached result (total == 0 answers no groups)
ScanGroups ==
    /\ scan.pc = "scan"
    /\ scan.results = {}
    /\ scan.scanned = scan.points
    /\ scan' = [scan EXCEPT !.pc = "complete",
                            !.groups = NearDuplicateGroups(scan.parent, scan.scanned)]
    /\ UNCHANGED <<engineVars, datasets, samples, vectorVars, tableVars, ingestVars, nextRid,
                   served, requests, evaluation, lastImport, lastBulk, plugins, worst>>

(***************************************************************************)
(* Progress streams: event_generator dumps the record every 0.5 s          *)
(***************************************************************************)
ReadProgress(kind, d) ==
    /\ snapshot' = [kind |-> kind, ds |-> d, rec |-> get_progress(kind, d)]
    /\ UNCHANGED <<progress, workers, lastResponse, datasets, samples, vectorVars, storeVars>>

(***************************************************************************)
(* Rows and input files                                                    *)
(***************************************************************************)
SampleRow(rid, d, id) == [rid |-> rid, ds |-> d, id |-> id, tags |-> {}]
DatasetRow(ic, ac, cc, pc) ==
    [image_count |-> ic, annotation_count |-> ac, category_count |-> cc, prediction_count |-> pc]
\* bbox is <<bbox_w, bbox_h>>; lengths are whole numbers of pixels
AnnotationRow(rid, id, d, s, name, source, bbox, area) ==
    [rid |-> rid, id |-> id, ds |-> d, sample |-> s, category_name |-> name, source |-> source,
     bbox_w |-> bbox[1], bbox_h |-> bbox[2], area |-> area]
CategoryRow(d, cid, name) == [ds |-> d, cid |-> cid, name |-> name]

\* a COCO annotation file: its categories, image ids and annotations
CocoFile(cats, images, anns) == [cats |-> cats, images |-> images, anns |-> anns]
Cat(cid, name) == [cid |-> cid, name |-> name]
\* area is the file's "area" value (0 when the file gives none)
Ann(id, image, cid, bbox, area) ==
    [id |-> id, image |-> image, cid |-> cid, bbox |-> bbox, area |-> area]

EmptyFile == CocoFile({}, << >>, << >>)
UnlabelledFile == CocoFile({Cat(1, "cat")}, <<1>>, << >>)
\* the second annotation carries the area of its segmentation mask; the third
\* names a category the file does not declare and carries no area
LabelledFile ==
    CocoFile({Cat(1, "cat"), Cat(2, "dog")}, <<1, 2, 3>>,
             <<Ann(1, 1, 1, <<2, 1>>, 2), Ann(2, 2, 2, <<2, 2>>, 3),
               Ann(3, 3, 7, <<2, 1>>, 0)>>)
CocoFiles == {EmptyFile, UnlabelledFile, LabelledFile}
SplitLists == {<<f>> : f \in CocoFiles} \cup {<<f, g>> : f \in CocoFiles, g \in CocoFiles}

\* uuid4: every call returns an id not handed out before
DatasetOrder == <<"d1", "d2">>

(***************************************************************************)
(* COCOParser (ingestion/coco_parser.py)                                   *)
(***************************************************************************)
\* parse_categories: {id: name}
parse_categories(file) == file.cats

\* categories.get(cat_id, "unknown")
CategoryName(cats, cid) ==
    IF \E c \in cats : c.cid = cid
    THEN (CHOOSE c \in cats : c.cid = cid).name
    ELSE "unknown"

\* positions of the items of the batch that starts after `done` items
BatchItems(items, done) == (done + 1)..Min(done + COCO_BATCH, Len(items))

\* build_image_batches: the sample rows of the next batch
build_image_batch(file, d, done, rid) ==
    {SampleRow(rid + (i - done), d, file.images[i]) : i \in BatchItems(file.images, done)}

\* build_annotation_batches: the ground_truth rows of the next batch
build_annotation_batch(file, d, cats, done, rid) ==
    {AnnotationRow(rid + (i - done), file.anns[i].id, d, file.anns[i].image,
                   CategoryName(cats, file.anns[i].cid), "ground_truth",
                   file.anns[i].bbox, file.anns[i].area)
        : i \in BatchItems(file.anns, done)}

(***************************************************************************)
(* IngestionService.ingest_with_progress / ingest_splits_with_progress     *)
(* (services/ingestion.py): a generator, one action per resumption.        *)
(***************************************************************************)
IdleIngest ==
    [pc |-> "idle", ds |-> "", file |-> EmptyFile, rest |-> << >>, multi |-> FALSE,
     image_count |-> 0, ann_count |-> 0, published |-> FALSE]

\* no ingestion request is being served
IngestFinished ==
    \/ ingest.pc \in {"idle", "failed", "closed"}
    \/ ingest.pc = "complete" /\ ingest.rest = << >>

Yield(stage) == events' = Append(events, stage)

\* dataset ids a client can name: a uuid is known outside the generator only
\* once the dataset record has been inserted (it stays known after a delete)
PublishedIds ==
    {d \in DatasetIds :
        \/ datasets[d] # NoDataset
        \/ \E i \in 1..allocated :
              DatasetOrder[i] = d /\ (ingest.ds # d \/ ingest.published)}

\* rows of dataset d in the tables the generator writes
StoredRows(d) ==
    Cardinality({r \in samples : r.ds = d}) + Cardinality({r \in annotations : r.ds = d})
      + Cardinality({r \in categories : r.ds = d})
      + (IF datasets[d] # NoDataset THEN 1 ELSE 0)

\* one dispatch of self.plugins.trigger_hook: what was stored and yielded by then
HookCall(hook_name, d, yielded) ==
    [name |-> hook_name, stored |-> StoredRows(d), events |-> yielded]

trigger_hook(hook_name, d) == hooks' = Append(hooks, HookCall(hook_name, d, events))

\* POST /datasets/ingest up to the first yield: the ingest_start hook, categories parsed
StartIngest(file, limit) ==
    /\ served < limit
    /\ IngestFinished
    /\ allocated < Len(DatasetOrder)
    /\ ingest' = [pc |-> "loading", ds |-> DatasetOrder[allocated + 1], file |-> file,
                  rest |-> << >>, multi |-> FALSE, image_count |-> 0, ann_count |-> 0,
                  published |-> FALSE]
    /\ allocated' = allocated + 1
    /\ served' = served + 1
    /\ hooks' = <<HookCall("on_ingest_start", DatasetOrder[allocated + 1], << >>)>>
    /\ events' = <<"categories">>
    /\ UNCHANGED <<calcVars, engineVars, vectorVars, tableVars, datasets, samples, nextRid, requests>>

\* POST /ingestion/import up to the first yield: split_start of the first split
ImportSplits(files, limit) ==
    /\ served < limit
    /\ IngestFinished
    /\ allocated < Len(DatasetOrder)
    /\ ingest' = [pc |-> "split", ds |-> DatasetOrder[allocated + 1], file |-> Head(files),
                  rest |-> Tail(files), multi |-> TRUE, image_count |-> 0, ann_count |-> 0,
                  published |-> FALSE]
    /\ allocated' = allocated + 1
    /\ served' = served + 1
    /\ hooks' = << >>
    /\ events' = <<"split_start">>
    /\ UNCHANGED <<calcVars, engineVars, vectorVars, tableVars, datasets, samples, nextRid, requests>>

\* ingest_with_progress of one split up to its categories event
IngestCategories ==
    /\ ingest.pc = "split"
    /\ ingest' = [ingest EXCEPT !.pc = "loading", !.image_count = 0, !.ann_count = 0]
    /\ trigger_hook("on_ingest_start", ingest.ds)
    /\ Yield("categories")
    /\ UNCHANGED <<calcVars, engineVars, vectorVars, tableVars, datasets, samples, nextRid,
                   allocated, served, requests>>

\* step 2: insert the next image batch, yield parsing_images
IngestImageBatch ==
    LET f == ingest.file
        rows == build_image_batch(f, ingest.ds, ingest.image_count, nextRid)
    IN /\ ingest.pc = "loading"
       /\ ingest.image_count < Len(f.images)
       /\ samples' = samples \cup rows
       /\ nextRid' = nextRid + Cardinality(rows)
       /\ ingest' = [ingest EXCEPT !.image_count = @ + Cardinality(rows)]
       /\ Yield("parsing_images")
       /\ UNCHANGED <<hooks, calcVars, engineVars, vectorVars, tableVars, datasets, allocated, served, requests>>

\* step 3: insert the next annotation batch, yield parsing_annotations
IngestAnnotationBatch ==
    LET f == ingest.file
        rows == build_annotation_batch(f, ingest.ds, parse_categories(f),
                                       ingest.ann_count, nextRid)
    IN /\ ingest.pc = "loading"
       /\ ingest.image_count = Len(f.images)
       /\ ingest.ann_count < Len(f.anns)
       /\ annotations' = annotations \cup rows
       /\ nextRid' = nextRid + Cardinality(rows)
       /\ ingest' = [ingest EXCEPT !.ann_count = @ + Cardinality(rows)]
       /\ Yield("parsing_annotations")
       /\ UNCHANGED <<hooks, calcVars, engineVars, vectorVars, categories, savedViews, overrides, datasets,
                      samples, allocated, served, requests>>

Max(a, b) == IF a > b THEN a ELSE b

\* category rows of cat_df that step 4 inserts
NewCategoryRows(d, cats, existing) ==
    {CategoryRow(d, c.cid, c.name) : c \in
        {c \in cats : ~existing \/ ~(\E r \in categories : r.ds = d /\ r.cid = c.cid)}}

\* IngestRecord with step 5 yielding its event only when thumbnails were generated
IngestRecord_SilentWithoutImages ==
    LET f == ingest.file
        d == ingest.ds
        cats == parse_categories(f)
        existing == datasets[d] # NoDataset
    IN /\ ingest.pc = "loading"
       /\ ingest.image_count = Len(f.images)
       /\ ingest.ann_count = Len(f.anns)
       /\ datasets' = [datasets EXCEPT ![d] =
             IF existing
             THEN [@ EXCEPT !.image_count = @ + ingest.image_count,
                            !.annotation_count = @ + ingest.ann_count,
                            !.category_count = Max(@, Cardinality(cats))]
             ELSE DatasetRow(ingest.image_count, ingest.ann_count, Cardinality(cats), 0)]
       /\ categories' = categories \cup NewCategoryRows(d, cats, existing)
       /\ ingest' = [ingest EXCEPT !.pc = "thumbnails", !.published = TRUE]
       /\ IF ingest.image_count > 0 THEN Yield("thumbnails") ELSE UNCHANGED events
       /\ UNCHANGED <<hooks, calcVars, engineVars, vectorVars, annotations, savedViews, overrides, samples,
                      nextRid, allocated, served, requests>>

\* step 4: insert or update the dataset record, insert the category records;
\* step 5: thumbnails for the first images (files on disk only), yield thumbnails
IngestRecord ==
    LET f == ingest.file
        d == ingest.ds
        cats == parse_categories(f)
        existing == datasets[d] # NoDataset
    IN /\ ingest.pc = "loading"
       /\ ingest.image_count = Len(f.images)
       /\ ingest.ann_count = Len(f.anns)
       /\ datasets' = [datasets EXCEPT ![d] =
             IF existing
             THEN [@ EXCEPT !.image_count = @ + ingest.image_count,
                            !.annotation_count = @ + ingest.ann_count,
                            !.category_count = Max(@, Cardinality(cats))]
             ELSE DatasetRow(ingest.image_count, ingest.ann_count, Cardinality(cats), 0)]
       /\ categories' = categories \cup NewCategoryRows(d, cats, existing)
       /\ ingest' = [ingest EXCEPT !.pc = "thumbnails", !.published = TRUE]
       /\ Yield("thumbnails")
       /\ UNCHANGED <<hooks, calcVars, engineVars, vectorVars, annotations, savedViews, overrides, samples,
                      nextRid, allocated, served, requests>>

\* IngestComplete dispatching the hook after the complete event was yielded
IngestComplete_HookAfterEvent ==
    /\ ingest.pc = "thumbnails"
    /\ ingest' = [ingest EXCEPT !.pc = "complete"]
    /\ Yield("complete")
    /\ hooks' = Append(hooks, HookCall("on_ingest_complete", ingest.ds, events'))
    /\ UNCHANGED <<calcVars, engineVars, vectorVars, tableVars, datasets, samples, nextRid,
                   allocated, served, requests>>

\* step 6: ingest_complete hook; step 7: yield complete
IngestComplete ==
    /\ ingest.pc = "thumbnails"
    /\ ingest' = [ingest EXCEPT !.pc = "complete"]
    /\ trigger_hook("on_ingest_complete", ingest.ds)
    /\ Yield("complete")
    /\ UNCHANGED <<calcVars, engineVars, vectorVars, tableVars, datasets, samples, nextRid,
                   allocated, served, requests>>

\* ingest_splits_with_progress: the next split of the list, yield split_start
IngestNextSplit ==
    /\ ingest.pc = "complete"
    /\ ingest.rest # << >>
    /\ ingest' = [ingest EXCEPT !.pc = "split", !.file = Head(ingest.rest),
                                !.rest = Tail(ingest.rest)]
    /\ Yield("split_start")
    /\ UNCHANGED <<hooks, calcVars, engineVars, vectorVars, tableVars, datasets, samples, nextRid,
                   allocated, served, requests>>

\* a store statement of steps 2-4 raises: the finally clause closes the cursor
\* and the exception ends the generator
IngestRaise ==
    /\ ingest.pc = "loading"
    /\ ingest' = [ingest EXCEPT !.pc = "failed"]
    /\ UNCHANGED <<hooks, calcVars, engineVars, vectorVars, tableVars, datasets, samples, nextRid,
                   events, allocated, served, requests>>

\* the client hangs up: the streaming layer closes the generator, GeneratorExit
\* is raised at the yield it is suspended at (inside steps 2-3 the finally
\* clause closes the cursor) and no later statement runs
IngestClose ==
    /\ ~IngestFinished
    /\ ingest' = [ingest EXCEPT !.pc = "closed"]
    /\ UNCHANGED <<hooks, calcVars, engineVars, vectorVars, tableVars, datasets, samples,
                   nextRid, events, allocated, served, requests>>

(***************************************************************************)
(* Prediction import (routers/datasets.py, routers/_run_name.py,           *)
(* ingestion/prediction_parser.py, ingestion/detection_annotation_parser)  *)
(***************************************************************************)
\* str(uuid.uuid4()) of a row created by a request; file ids are small numbers
Uuid(rid) == 100 + rid

\* a prediction source on disk: a results file, a directory of per-image
\* files with an info block, or nothing at that path
Pred(image, cid, label, bbox) == [image |-> image, cid |-> cid, label |-> label, bbox |-> bbox]
\* bbox_w * bbox_h
BoxArea(bbox) == bbox[1] * bbox[2]
PredictionPath(stem, kind, info, preds) ==
    [stem |-> stem, kind |-> kind, info |-> info, preds |-> preds]
ResultsFile ==
    PredictionPath("runA", "file", "", <<Pred(1, 1, "cat", <<2, 1>>), Pred(2, 7, "bird", <<1, 1>>)>>)
GroundTruthFile == PredictionPath("ground_truth", "file", "", <<Pred(1, 1, "cat", <<2, 1>>)>>)
ResultsDir ==
    PredictionPath("preds", "dir", "runB", <<Pred(1, 1, "cat", <<2, 2>>), Pred(9, 1, "cat", <<1, 1>>)>>)
MissingPath == PredictionPath("runA", "missing", "", << >>)
PredictionPaths == {ResultsFile, GroundTruthFile, ResultsDir, MissingPath}
PredictionFormats == {"coco", "detection_annotation", "classification_jsonl"}
\* request.run_name: "" stands for an omitted (or empty) run name
RunNames == {"", "runA", "ground_truth"}
PredictionImportRequest(path, format, run_name) ==
    [path |-> path, format |-> format, run_name |-> run_name]

\* derive_run_name: file stem for a results file, info block for a directory
derive_run_name(path, fmt) ==
    IF fmt = "detection_annotation"
    THEN IF path.kind = "dir" /\ path.info # "" THEN path.info ELSE "prediction"
    ELSE IF path.stem # "" THEN path.stem ELSE "prediction"

\* PredictionParser.parse_streaming: predictions of unmapped categories are skipped
parse_streaming(path, d, source, rid) ==
    {AnnotationRow(rid + i, Uuid(rid + i), d, path.preds[i].image,
                   (CHOOSE c \in categories : c.ds = d /\ c.cid = path.preds[i].cid).name,
                   source, path.preds[i].bbox, BoxArea(path.preds[i].bbox))
        : i \in {j \in 1..Len(path.preds) :
                    \E c \in categories : c.ds = d /\ c.cid = path.preds[j].cid}}

\* DetectionAnnotationParser.parse_directory: files of unknown images are skipped
parse_directory(path, d, source, rid) ==
    {AnnotationRow(rid + i, Uuid(rid + i), d, path.preds[i].image, path.preds[i].label, source,
                   path.preds[i].bbox, BoxArea(path.preds[i].bbox))
        : i \in {j \in 1..Len(path.preds) :
                    \E s \in samples : s.ds = d /\ s.id = path.preds[j].image}}

\* SELECT COUNT(*) FROM annotations WHERE dataset_id = ? AND source != 'ground_truth'
PredictionRowCount(rows, d) ==
    Cardinality({a \in rows : a.ds = d /\ a.source # "ground_truth"})

\* POST /datasets/{dataset_id}/predictions
\* the annotation, sample and category tables
ImportStore(rows) == <<rows, samples, categories>>

NoImport == [ds |-> "", req |-> "", store |-> << >>, repeated |-> FALSE]

\* rows left by DELETE FROM annotations WHERE dataset_id = ? AND source = ?
\* without the DELETE statement
delete_run_Skipped(rows, d, run_name) == rows

\* rows left by DELETE FROM annotations WHERE dataset_id = ? AND source = ?
delete_run(rows, d, run_name) == {a \in rows : ~(a.ds = d /\ a.source = run_name)}

import_predictions(d, req, limit) ==
    LET run_name == IF req.run_name # "" THEN req.run_name
                    ELSE derive_run_name(req.path, req.format)
        kept == delete_run(annotations, d, run_name)
        directory == req.format = "detection_annotation"
        rows == IF directory THEN parse_directory(req.path, d, run_name, nextRid)
                ELSE parse_streaming(req.path, d, run_name, nextRid)
    IN /\ served < limit
       /\ served' = served + 1
       /\ IF datasets[d] = NoDataset
          THEN /\ lastResponse' = 404
               /\ UNCHANGED <<annotations, datasets, nextRid>>
          ELSE IF (directory /\ req.path.kind # "dir") \/ (~directory /\ req.path.kind = "missing")
          THEN \* HTTPException raised after the DELETE statement
               /\ lastResponse' = 400
               /\ annotations' = kept
               /\ UNCHANGED <<datasets, nextRid>>
          ELSE IF ~directory /\ req.path.kind = "dir"
          THEN \* open() of a directory raises after the DELETE statement
               /\ lastResponse' = 500
               /\ annotations' = kept
               /\ UNCHANGED <<datasets, nextRid>>
          ELSE /\ lastResponse' = 200
               /\ annotations' = kept \cup rows
               /\ nextRid' = nextRid + Len(req.path.preds)
               /\ datasets' = [datasets EXCEPT ![d].prediction_count =
                                  PredictionRowCount(kept \cup rows, d)]
       /\ lastImport' = [ds |-> d, req |-> req, store |-> ImportStore(annotations'),
                         repeated |-> /\ lastImport.ds = d
                                      /\ lastImport.req = req
                                      /\ lastImport.store = ImportStore(annotations)]
       /\ UNCHANGED <<scan, evaluation, lastBulk, plugins, worst, progress, workers, snapshot, vectorVars,
                      samples, categories, savedViews, overrides, ingestVars, requests>>

(***************************************************************************)
(* Annotation editing (routers/annotations.py), saved views                *)
(* (routers/views.py) and dataset deletion (routers/datasets.py)           *)
(***************************************************************************)
CategoryNames == {"cat", "dog"}
\* the box (bbox_w, bbox_h) drawn in the editor
DrawnBox == <<2, 1>>
\* boxes a request body may carry: AnnotationCreate and AnnotationUpdate take any float
RequestedBoxes == {<<2, 1>>, <<0, 2>>, <<-2, 1>>}

\* _update_dataset_counts over the annotation rows `rows`; an UPDATE of a
\* dataset that does not exist changes nothing
update_dataset_counts(rows, d) ==
    IF datasets[d] = NoDataset THEN datasets
    ELSE [datasets EXCEPT
            ![d].annotation_count = Cardinality({a \in rows : a.ds = d}),
            ![d].category_count =
                Cardinality({a.category_name : a \in {b \in rows : b.ds = d}})]

\* POST /annotations
create_annotation(d, s, name, bbox, limit) ==
    LET row == AnnotationRow(nextRid + 1, Uuid(nextRid + 1), d, s, name, "ground_truth",
                             bbox, BoxArea(bbox))
    IN /\ served < limit
       /\ served' = served + 1
       /\ annotations' = annotations \cup {row}
       /\ nextRid' = nextRid + 1
       /\ datasets' = update_dataset_counts(annotations \cup {row}, d)
       /\ lastResponse' = 200
       /\ UNCHANGED <<calcVars, progress, workers, snapshot, vectorVars, samples, categories,
                      savedViews, overrides, ingestVars, requests>>

\* PUT /annotations/{annotation_id}: every row the statement matches is updated
update_annotation(id, bbox, limit) ==
    LET updated == {a \in annotations : a.id = id /\ a.source = "ground_truth"}
    IN /\ served < limit
       /\ served' = served + 1
       /\ lastResponse' = IF updated = {} THEN 404 ELSE 200
       /\ annotations' =
             (annotations \ updated)
               \cup {[a EXCEPT !.bbox_w = bbox[1], !.bbox_h = bbox[2], !.area = BoxArea(bbox)]
                        : a \in updated}
       /\ UNCHANGED <<calcVars, progress, workers, snapshot, vectorVars, datasets, samples,
                      categories, savedViews, overrides, ingestVars, nextRid, requests>>

\* ids a DELETE /annotations/{id} request may name: stored ones and an unknown one
AnnotationIds == {a.id : a \in annotations} \cup {0}

\* DELETE /annotations/{annotation_id}: the statement matches on id and source
\* only; fetchone() takes one of the returned rows
delete_annotation(id, limit) ==
    LET deleted == {a \in annotations : a.id = id /\ a.source = "ground_truth"}
    IN /\ served < limit
       /\ served' = served + 1
       /\ IF deleted = {}
          THEN /\ lastResponse' = 404
               /\ UNCHANGED <<annotations, datasets>>
          ELSE /\ lastResponse' = 200
               /\ annotations' = annotations \ deleted
               /\ \E row \in deleted :
                     datasets' = update_dataset_counts(annotations \ deleted, row.ds)
       /\ UNCHANGED <<calcVars, progress, workers, snapshot, vectorVars, samples, categories,
                      savedViews, overrides, ingestVars, nextRid, requests>>

\* POST /views
create_view(d, limit) ==
    /\ served < limit
    /\ served' = served + 1
    /\ savedViews' = savedViews \cup {[rid |-> nextRid + 1, ds |-> d]}
    /\ nextRid' = nextRid + 1
    /\ lastResponse' = 201
    /\ UNCHANGED <<calcVars, progress, workers, snapshot, vectorVars, datasets, samples, annotations,
                   categories, overrides, ingestVars, requests>>

NoPoints == [s \in SampleIds |-> 0]

\* SimilarityService.invalidate_collection
invalidate_collection(d) ==
    [collection EXCEPT ![d] = [exists |-> FALSE, points |-> NoPoints]]

\* DELETE /datasets/{dataset_id}: six DELETE statements, the thumbnail cache,
\* then the vector collection, whose failure is logged and swallowed
delete_dataset(d, limit) ==
    /\ served < limit
    /\ served' = served + 1
    /\ IF datasets[d] = NoDataset
       THEN /\ lastResponse' = 404
            /\ UNCHANGED <<vectorVars, datasets, samples, annotations, categories, savedViews>>
       ELSE /\ lastResponse' = 204
            /\ embeddings' = [embeddings EXCEPT ![d] = NoPoints]
            /\ reduced' = [reduced EXCEPT ![d] = {}]
            /\ savedViews' = {v \in savedViews : v.ds # d}
            /\ annotations' = {a \in annotations : a.ds # d}
            /\ samples' = {s \in samples : s.ds # d}
            /\ categories' = {c \in categories : c.ds # d}
            /\ datasets' = [datasets EXCEPT ![d] = NoDataset]
            /\ \/ collection' = invalidate_collection(d)
               \/ (collection[d].exists /\ UNCHANGED collection)
    /\ UNCHANGED <<calcVars, progress, workers, snapshot, overrides, ingestVars, nextRid, requests>>

(***************************************************************************)
(* Sample tags and triage (routers/triage.py, routers/annotation_triage.py,*)
(* routers/samples.py). Tag lists never hold a value twice (list_distinct  *)
(* on every append), so a list is modelled by its set of values.           *)
(***************************************************************************)
TRIAGE_PREFIX == "triage:"
VALID_TRIAGE_TAGS == {"triage:fp", "triage:tp", "triage:fn", "triage:mistake"}
VALID_ANNOTATION_TRIAGE_LABELS == {"tp", "fp", "fn", "mistake"}

\* the tags of the model that start with a prefix
TagsStartingWith(prefix) ==
    CASE prefix = "triage:" -> VALID_TRIAGE_TAGS \cup {"triage:annotated"}
      [] prefix = "triage:ann" -> {"triage:annotated"}

starts_with(x, prefix) == x \in TagsStartingWith(prefix)

\* UPDATE samples SET tags = <tags without `removed`, with `added`>
\* WHERE dataset_id = d AND id IN ids
UpdateTags(d, ids, removed, added) ==
    {IF s.ds = d /\ s.id \in ids THEN [s EXCEPT !.tags = (@ \ removed) \cup added] ELSE s
        : s \in samples}

\* tags a set-triage-tag request may name; the last one is not a triage tag
RequestedTriageTags == {"triage:fp", "triage:fn", "triage:later"}

\* PATCH /samples/set-triage-tag
set_triage_tag(d, s, tag, limit) ==
    LET stale == TagsStartingWith(TRIAGE_PREFIX)
    IN /\ served < limit
       /\ served' = served + 1
       /\ IF tag \notin VALID_TRIAGE_TAGS
          THEN /\ lastResponse' = 400
               /\ UNCHANGED samples
          ELSE /\ lastResponse' = 200
               /\ samples' = UpdateTags(d, {s}, stale, {tag})
       /\ UNCHANGED <<calcVars, progress, workers, snapshot, vectorVars, datasets, tableVars,
                      ingestVars, nextRid, requests>>

\* DELETE /samples/{sample_id}/triage-tag
remove_triage_tag(d, s, limit) ==
    LET stale == TagsStartingWith(TRIAGE_PREFIX)
    IN /\ served < limit
       /\ served' = served + 1
       /\ lastResponse' = 200
       /\ samples' = UpdateTags(d, {s}, stale, {})
       /\ UNCHANGED <<calcVars, progress, workers, snapshot, vectorVars, datasets, tableVars,
                      ingestVars, nextRid, requests>>

\* BulkTagRequest: dataset_id, a non-empty list of sample_ids and a free-form tag
BulkTags == {"keep", "triage:fp", "triage:fn"}
BulkTagRequest(d, ids, tag) == [dataset_id |-> d, sample_ids |-> ids, tag |-> tag]
BulkTagRequests ==
    {BulkTagRequest(d, ids, tag) : d \in DatasetIds, ids \in SUBSET SampleIds \ {{}}, tag \in BulkTags}

\* no bulk-tag request was served yet
NoBulk == [served |-> FALSE, req |-> BulkTagRequest("", {}, ""), before |-> {}, after |-> {}]

\* PATCH /samples/bulk-tag (a request of SampleIds size is far below the 500 limit)
bulk_add_tag(req, limit) ==
    /\ served < limit
    /\ served' = served + 1
    /\ lastResponse' = 200
    /\ samples' = UpdateTags(req.dataset_id, req.sample_ids, {}, {req.tag})
    /\ lastBulk' = [served |-> TRUE, req |-> req, before |-> samples, after |-> samples']
    /\ UNCHANGED <<scan, evaluation, lastImport, plugins, worst, progress, workers, snapshot, vectorVars, datasets, tableVars,
                   ingestVars, nextRid, requests>>

\* PATCH /samples/bulk-untag
bulk_remove_tag(req, limit) ==
    /\ served < limit
    /\ served' = served + 1
    /\ lastResponse' = 200
    /\ samples' = UpdateTags(req.dataset_id, req.sample_ids, {req.tag}, {})
    /\ UNCHANGED <<calcVars, progress, workers, snapshot, vectorVars, datasets, tableVars,
                   ingestVars, nextRid, requests>>

(***************************************************************************)
(* Annotation triage overrides (routers/annotation_triage.py). Each        *)
(* handler runs in its own thread and every statement commits on its own,  *)
(* so a handler is one action per statement.                               *)
(***************************************************************************)
Slots == 1..MaxInFlight
OverrideAnnotations == 1..MaxOverrideAnnotations
RequestedLabels == {"tp", "fp", "sure"}

IdleRequest == [op |-> "idle", pc |-> "", ann |-> 0, ds |-> "", sample |-> 0, label |-> ""]
TriageRequest(op, pc, a, d, s, label) ==
    [op |-> op, pc |-> pc, ann |-> a, ds |-> d, sample |-> s, label |-> label]
OverrideRow(rid, a, d, s, label) ==
    [rid |-> rid, ann |-> a, ds |-> d, sample |-> s, label |-> label]

\* the request thread that serves the next annotation-triage request
FreeSlot(i, open) ==
    /\ i \in 1..open
    /\ requests[i] = IdleRequest
    /\ \A j \in 1..(i - 1) : requests[j] # IdleRequest

\* DELETE FROM annotation_triage WHERE annotation_id = ? AND dataset_id = ?
DeleteOverride(a, d) == {o \in overrides : ~(o.ann = a /\ o.ds = d)}

\* PATCH /samples/set-annotation-triage with a label outside the valid set
set_annotation_triage_invalid(label, limit) ==
    /\ served < limit
    /\ label \notin VALID_ANNOTATION_TRIAGE_LABELS
    /\ served' = served + 1
    /\ lastResponse' = 400
    /\ UNCHANGED <<calcVars, progress, workers, snapshot, vectorVars, datasets, samples, tableVars,
                   ingestVars, nextRid, requests>>

\* PATCH /samples/set-annotation-triage: label check and the DELETE statement
set_annotation_triage_delete(i, a, d, s, label, limit, open) ==
    /\ served < limit
    /\ FreeSlot(i, open)
    /\ label \in VALID_ANNOTATION_TRIAGE_LABELS
    /\ served' = served + 1
    /\ overrides' = DeleteOverride(a, d)
    /\ requests' = [requests EXCEPT ![i] = TriageRequest("set", "insert", a, d, s, label)]
    /\ UNCHANGED <<calcVars, engineVars, vectorVars, datasets, samples, annotations, categories,
                   savedViews, ingestVars, nextRid>>

\* ... the INSERT statement
set_annotation_triage_insert(i) ==
    LET r == requests[i]
    IN /\ r.op = "set" /\ r.pc = "insert"
       /\ overrides' = overrides \cup {OverrideRow(nextRid + 1, r.ann, r.ds, r.sample, r.label)}
       /\ nextRid' = nextRid + 1
       /\ requests' = [requests EXCEPT ![i].pc = "tag"]
       /\ UNCHANGED <<calcVars, engineVars, vectorVars, datasets, samples, annotations, categories,
                      savedViews, ingestVars, served>>

\* ... the UPDATE of the named sample's tags, then the response
set_annotation_triage_tag(i) ==
    LET r == requests[i]
    IN /\ r.op = "set" /\ r.pc = "tag"
       /\ samples' = UpdateTags(r.ds, {r.sample}, TagsStartingWith("triage:ann"),
                              {"triage:annotated"})
       /\ requests' = [requests EXCEPT ![i] = IdleRequest]
       /\ lastResponse' = 200
       /\ UNCHANGED <<calcVars, progress, workers, snapshot, vectorVars, datasets, tableVars,
                      ingestVars, nextRid, served>>

\* DELETE /samples/{sample_id}/annotation-triage/{annotation_id}: the DELETE statement
delete_annotation_triage_delete(i, s, a, d, limit, open) ==
    /\ served < limit
    /\ FreeSlot(i, open)
    /\ served' = served + 1
    /\ overrides' = DeleteOverride(a, d)
    /\ requests' = [requests EXCEPT ![i] = TriageRequest("delete", "count", a, d, s, "")]
    /\ UNCHANGED <<calcVars, engineVars, vectorVars, datasets, samples, annotations, categories,
                   savedViews, ingestVars, nextRid>>

\* SELECT COUNT(*) ... WHERE dataset_id = ? AND sample_id = ?
RemainingOverrides(d, s) == Cardinality({o \in overrides : o.ds = d /\ o.sample = s})

\* ... the COUNT of the overrides left for the sample of the URL
delete_annotation_triage_count(i) ==
    LET r == requests[i]
    IN /\ r.op = "delete" /\ r.pc = "count"
       /\ IF RemainingOverrides(r.ds, r.sample) = 0
          THEN /\ requests' = [requests EXCEPT ![i].pc = "untag"]
               /\ UNCHANGED lastResponse
          ELSE /\ requests' = [requests EXCEPT ![i] = IdleRequest]
               /\ lastResponse' = 200
       /\ UNCHANGED <<calcVars, progress, workers, snapshot, vectorVars, datasets, samples, tableVars,
                      ingestVars, nextRid, served>>

\* ... the UPDATE that removes triage:annotated, then the response
delete_annotation_triage_untag(i) ==
    LET r == requests[i]
    IN /\ r.op = "delete" /\ r.pc = "untag"
       /\ samples' = UpdateTags(r.ds, {r.sample}, TagsStartingWith("triage:ann"), {})
       /\ requests' = [requests EXCEPT ![i] = IdleRequest]
       /\ lastResponse' = 200
       /\ UNCHANGED <<calcVars, progress, workers, snapshot, vectorVars, datasets, tableVars,
                      ingestVars, nextRid, served>>

(***************************************************************************)
(* Evaluation (services/evaluation.py, services/error_analysis.py,         *)
(* services/annotation_matching.py): the greedy matching of the boxes of   *)
(* one sample. A box is <<x, y, w, h>>, a confidence is in tenths, an IoU  *)
(* or an IoU threshold is a fraction <<numerator, denominator>>.           *)
(***************************************************************************)
\* ground-truth boxes, and predicted boxes whose IoU with them is 0, 1/3, 1/2 or 1
GtBoxes == {<<0, 0, 2, 1>>, <<1, 0, 2, 1>>, <<0, 0, 1, 1>>}
PredBoxes == {<<0, 0, 2, 1>>, <<0, 0, 1, 1>>}
Confidences == {3, 9}
ConfThresholds == {5}
\* 0.45, the default of match_sample_annotations
IouThresholds == {<<9, 20>>}

\* _BoxRow: (cat, x, y, w, h, conf); conf is None (0 here) for ground truth
BoxRow(cat, box, conf) == [cat |-> cat, box |-> box, conf |-> conf]
GtRows == {BoxRow(c, b, 0) : c \in CategoryNames, b \in GtBoxes}
PredRows == {BoxRow(c, b, f) : c \in CategoryNames, b \in PredBoxes, f \in Confidences}

\* no evaluation has been requested
NoEvaluation == [pc |-> "idle"]

\* the rows _load_detections groups under one sample id
LoadedDetections ==
    {[pc |-> "loaded", matcher |-> "", gt |-> g, preds |-> p, iou_threshold |-> t,
      conf_threshold |-> c, pairs |-> {}, per_class |-> << >>] :
        g \in UNION {[1..n -> GtRows] : n \in 0..MaxGt},
        p \in UNION {[1..n -> PredRows] : n \in 0..MaxPred},
        t \in IouThresholds, c \in ConfThresholds}

\* _compute_iou_matrix for one pair of boxes, after the xywh -> xyxy conversion
compute_iou(a, b) ==
    LET x1 == Max(a[1], b[1])
        y1 == Max(a[2], b[2])
        x2 == Min(a[1] + a[3], b[1] + b[3])
        y2 == Min(a[2] + a[4], b[2] + b[4])
        inter == Max(0, x2 - x1) * Max(0, y2 - y1)
        area_union == a[3] * a[4] + b[3] * b[4] - inter
    IN IF area_union > 0 THEN <<inter, area_union>> ELSE <<0, 1>>

IouGreater(p, q) == p[1] * q[2] > q[1] * p[2]
IouAtLeast(p, t) == p[1] * t[2] >= t[1] * p[2]

\* np.argmax over the candidates: the first index of the largest IoU
FirstMax(ious, cands) ==
    CHOOSE g \in cands : \A h \in cands :
        /\ ~IouGreater(ious[h], ious[g])
        /\ h < g => IouGreater(ious[g], ious[h])

Perms(n) == {f \in [1..n -> 1..n] : \A i \in 1..n, j \in 1..n : f[i] = f[j] => i = j}

\* np.argsort(-conf): an order of descending key, ties in any order
DescendingOrders(keys) ==
    {f \in Perms(Len(keys)) :
        \A i \in 1..Len(keys), j \in 1..Len(keys) : i < j => keys[f[i]] >= keys[f[j]]}

\* list.sort(key=-...): the order of descending key that keeps ties in place
StableOrder(keys) ==
    CHOOSE f \in DescendingOrders(keys) :
        \A i \in 1..Len(keys), j \in 1..Len(keys) :
            (i < j /\ keys[f[i]] = keys[f[j]]) => f[i] < f[j]

Reordered(rows, order) == [i \in 1..Len(rows) |-> rows[order[i]]]

IousOf(pred, gt) == [gi \in 1..Len(gt) |-> compute_iou(pred.box, gt[gi].box)]

NoMatches == [matched |-> {}, pairs |-> {}, per_class |-> << >>]

\* the pair is recorded but the ground truth is not added to matched_gt
Matched_Untracked(acc, k, gi) == [acc EXCEPT !.pairs = @ \cup {<<k, gi>>}]

\* matched_gt.add(best_idx) for the prediction at position k
Matched(acc, k, gi) == [acc EXCEPT !.matched = @ \cup {gi}, !.pairs = @ \cup {<<k, gi>>}]

\* get_confusion_cell_samples, "for pi in order": the best unmatched ground
\* truth of the prediction's class, matched when its IoU reaches the threshold
RECURSIVE cell_matching(_, _, _, _, _)
cell_matching(gt, preds, thr, k, acc) ==
    IF k > Len(preds) THEN acc
    ELSE LET ious == IousOf(preds[k], gt)
             cands == {gi \in 1..Len(gt) : /\ gi \notin acc.matched
                                           /\ gt[gi].cat = preds[k].cat
                                           /\ IouGreater(ious[gi], <<0, 1>>)}
         IN IF cands # {} /\ IouAtLeast(ious[FirstMax(ious, cands)], thr)
            THEN cell_matching(gt, preds, thr, k + 1, Matched(acc, k, FirstMax(ious, cands)))
            ELSE cell_matching(gt, preds, thr, k + 1, acc)

\* _compute_pr_curves, "for pi in order": the best ground truth of the
\* prediction's class, a true positive when it is above the threshold and free
RECURSIVE pr_matching(_, _, _, _, _)
pr_matching(gt, preds, thr, k, acc) ==
    IF k > Len(preds) THEN acc
    ELSE LET ious == IousOf(preds[k], gt)
             gt_indices == {gi \in 1..Len(gt) : gt[gi].cat = preds[k].cat}
         IN IF /\ gt_indices # {}
               /\ IouAtLeast(ious[FirstMax(ious, gt_indices)], thr)
               /\ FirstMax(ious, gt_indices) \notin acc.matched
            THEN pr_matching(gt, preds, thr, k + 1, Matched(acc, k, FirstMax(ious, gt_indices)))
            ELSE pr_matching(gt, preds, thr, k + 1, acc)

ZeroCounts == [tp |-> 0, hard_fp |-> 0, label_error |-> 0, fn |-> 0]

\* per_class_counts[cls][field] += 1 on the defaultdict
Count(per_class, cls, field) ==
    IF cls \in DOMAIN per_class
    THEN [per_class EXCEPT ![cls][field] = @ + 1]
    ELSE (cls :> [ZeroCounts EXCEPT ![field] = 1]) @@ per_class

\* categorize_errors and match_sample_annotations, "for pred in
\* filtered_preds": the best ground truth of any class; above the threshold
\* and free it is consumed, as tp (same class) or label_error (other class)
RECURSIVE error_matching(_, _, _, _, _)
error_matching(gt, preds, thr, k, acc) ==
    IF k > Len(preds) THEN acc
    ELSE LET ious == IousOf(preds[k], gt)
             all_gt == 1..Len(gt)
             pred_cat == preds[k].cat
         IN IF /\ all_gt # {}
               /\ IouAtLeast(ious[FirstMax(ious, all_gt)], thr)
               /\ FirstMax(ious, all_gt) \notin acc.matched
            THEN LET best_idx == FirstMax(ious, all_gt)
                     error_type == IF gt[best_idx].cat = pred_cat THEN "tp" ELSE "label_error"
                     counted == [acc EXCEPT !.per_class = Count(@, pred_cat, error_type)]
                 IN error_matching(gt, preds, thr, k + 1, Matched(counted, k, best_idx))
            ELSE error_matching(gt, preds, thr, k + 1,
                                [acc EXCEPT !.per_class = Count(@, pred_cat, "hard_fp")])

\* "False negatives: unmatched GT"
RECURSIVE false_negatives(_, _, _, _)
false_negatives(gt, matched, gi, per_class) ==
    IF gi > Len(gt) THEN per_class
    ELSE false_negatives(gt, matched, gi + 1,
                         IF gi \in matched THEN per_class
                         ELSE Count(per_class, gt[gi].cat, "fn"))

Finished(matcher, res) ==
    evaluation' = [evaluation EXCEPT !.pc = "done", !.matcher = matcher,
                                     !.pairs = res.pairs, !.per_class = res.per_class]

evaluationFrame ==
    UNCHANGED <<engineVars, datasets, samples, vectorVars, tableVars, ingestVars, nextRid,
                served, requests, scan, lastImport, lastBulk, plugins, worst>>

\* _compute_pr_curves on the sample: every prediction, by descending confidence
compute_pr_curves ==
    LET e == evaluation
    IN /\ e.pc = "loaded"
       /\ \E order \in DescendingOrders([i \in 1..Len(e.preds) |-> e.preds[i].conf]) :
             Finished("pr_curves", pr_matching(e.gt, Reordered(e.preds, order),
                                               e.iou_threshold, 1, NoMatches))
       /\ evaluationFrame

\* get_confusion_cell_samples on the sample: the predictions at or above the
\* confidence threshold, by descending confidence
get_confusion_cell_samples ==
    LET e == evaluation
        Confident(r) == r.conf >= e.conf_threshold
        pred_det == SelectSeq(e.preds, Confident)
    IN /\ e.pc = "loaded"
       /\ \E order \in DescendingOrders([i \in 1..Len(pred_det) |-> pred_det[i].conf]) :
             Finished("confusion_cell", cell_matching(e.gt, Reordered(pred_det, order),
                                                      e.iou_threshold, 1, NoMatches))
       /\ evaluationFrame

\* filtered_preds of categorize_errors: r[4] of a _BoxRow is its height, which
\* is what the filter and the sort compare (confidence thresholds are in tenths)
categorized_preds(pred_rows, conf_threshold) ==
    LET Kept(r) == r.box[4] * 10 >= conf_threshold
        filtered_preds == SelectSeq(pred_rows, Kept)
    IN Reordered(filtered_preds,
                 StableOrder([i \in 1..Len(filtered_preds) |-> filtered_preds[i].box[4]]))

\* categorize_errors on the sample, false negatives included
categorize_errors ==
    LET e == evaluation
        sorted == categorized_preds(e.preds, e.conf_threshold)
        res == error_matching(e.gt, sorted, e.iou_threshold, 1, NoMatches)
    IN /\ e.pc = "loaded"
       /\ Finished("categorize_errors",
                   [res EXCEPT !.per_class = false_negatives(e.gt, res.matched, 1, @)])
       /\ evaluationFrame

\* filtered_preds of match_sample_annotations: the predictions at or above the
\* confidence threshold, by descending confidence (list.sort is stable)
confident_preds(pred_rows, conf_threshold) ==
    LET Confident(r) == r.conf >= conf_threshold
        filtered_preds == SelectSeq(pred_rows, Confident)
    IN Reordered(filtered_preds,
                 StableOrder([i \in 1..Len(filtered_preds) |-> filtered_preds[i].conf]))

\* match_sample_annotations on the sample
match_sample_annotations ==
    LET e == evaluation
        sorted == confident_preds(e.preds, e.conf_threshold)
    IN /\ e.pc = "loaded"
       /\ Finished("match_sample_annotations",
                   error_matching(e.gt, sorted, e.iou_threshold, 1, NoMatches))
       /\ evaluationFrame

(***************************************************************************)
(* Worst-image ranking (services/triage.py over categorize_errors of       *)
(* services/error_analysis.py): the loop over the samples of the dataset   *)
(* that fills samples_by_type, one sample per step, then the aggregation.  *)
(***************************************************************************)
ErrorTypes == {"tp", "hard_fp", "label_error", "false_negative"}

\* the detections of one sample
Detections(gt_rows, pred_rows) == [gt |-> gt_rows, preds |-> pred_rows]

\* samples of a dataset: matched, one or two false positives, a false positive
\* next to a missed box, a wrong label, two missed boxes
SampleDetections ==
    {Detections(<<BoxRow("cat", <<0, 0, 2, 1>>, 0)>>, <<BoxRow("cat", <<0, 0, 2, 1>>, 9)>>),
     Detections(<< >>, <<BoxRow("cat", <<0, 0, 2, 1>>, 9)>>),
     Detections(<< >>, <<BoxRow("cat", <<0, 0, 2, 1>>, 9), BoxRow("dog", <<0, 0, 1, 1>>, 9)>>),
     Detections(<<BoxRow("cat", <<1, 0, 2, 1>>, 0)>>, <<BoxRow("cat", <<0, 0, 1, 1>>, 9)>>),
     Detections(<<BoxRow("dog", <<0, 0, 2, 1>>, 0)>>, <<BoxRow("cat", <<0, 0, 2, 1>>, 9)>>),
     Detections(<<BoxRow("cat", <<0, 0, 2, 1>>, 0), BoxRow("dog", <<1, 0, 2, 1>>, 0)>>, << >>)}

NoSamplesByType == [t \in ErrorTypes |-> << >>]

\* no ranking has been requested
NoRanking == [pc |-> "idle", samples |-> << >>, sid |-> 0, samples_by_type |-> NoSamplesByType,
              scored |-> {}]

\* the datasets a ranking may be requested for: sample ids 1..n with their detections
LoadedSamples ==
    {[NoRanking EXCEPT !.pc = "loop", !.samples = d, !.sid = 1] :
        d \in UNION {[1..n -> SampleDetections] : n \in 0..MaxSamples}}

\* the per-class counters of one sample as categorize_errors fills them
sample_counts(det, iou_threshold, conf_threshold) ==
    LET sorted == categorized_preds(det.preds, conf_threshold)
        res == error_matching(det.gt, sorted, iou_threshold, 1, NoMatches)
    IN false_negatives(det.gt, res.matched, 1, res.per_class)

\* detections of one error type in a sample, over all classes
TypeCount(per_class, error_type) ==
    LET field == IF error_type = "false_negative" THEN "fn" ELSE error_type
    IN SumOver([c \in DOMAIN per_class |-> per_class[c][field]], DOMAIN per_class)

\* n entries of sample sid appended while the list is below the cap
RECURSIVE AppendCapped(_, _, _)
AppendCapped(list, sid, n) ==
    IF n = 0 THEN list
    ELSE AppendCapped(IF Len(list) < MAX_SAMPLES_PER_TYPE THEN Append(list, sid) ELSE list,
                      sid, n - 1)

rankingFrame ==
    UNCHANGED <<engineVars, datasets, samples, vectorVars, tableVars, ingestVars, nextRid,
                served, requests, scan, evaluation, lastImport, lastBulk, plugins>>

\* categorize_errors, one iteration of "for sid in sample_ids"
categorize_sample ==
    LET thr == CHOOSE t \in IouThresholds : TRUE
        conf == CHOOSE c \in ConfThresholds : TRUE
        counts == sample_counts(worst.samples[worst.sid], thr, conf)
    IN /\ worst.pc = "loop"
       /\ worst.sid <= Len(worst.samples)
       /\ worst' = [worst EXCEPT
             !.samples_by_type = [t \in ErrorTypes |->
                                     AppendCapped(@[t], worst.sid, TypeCount(counts, t))],
             !.sid = @ + 1]
       /\ rankingFrame

\* occurrences of sid in a list of samples_by_type
Entries(list, sid) == Cardinality({i \in 1..Len(list) : list[i] = sid})

\* compute_worst_images after categorize_errors returned: sample_errors counts
\* the entries of the three error lists, every sample with an entry is scored
compute_worst_images ==
    LET sample_errors ==
            [sid \in 1..Len(worst.samples) |->
                Entries(worst.samples_by_type["hard_fp"], sid)
                  + Entries(worst.samples_by_type["label_error"], sid)
                  + Entries(worst.samples_by_type["false_negative"], sid)]
    IN /\ worst.pc = "loop"
       /\ worst.sid > Len(worst.samples)
       /\ worst' = [worst EXCEPT
             !.pc = "ranked",
             !.scored = {[sample_id |-> sid, error_count |-> sample_errors[sid]] :
                            sid \in {i \in 1..Len(worst.samples) : sample_errors[i] > 0}}]
       /\ rankingFrame

(***************************************************************************)
(* Plugin registry (plugins/registry.py). _plugins is a dict keyed by the  *)
(* plugin's name: it keeps insertion order and a second registration under *)
(* a name replaces the instance in place. A plugin is modelled by its name *)
(* and by whether its hook raises an Exception; BasePlugin defines every   *)
(* hook, so getattr never returns None for a registered plugin.            *)
(***************************************************************************)
PluginNames == {"faulty", "example", "audit"}

\* PluginRegistry.__init__: no plugin, no call in progress
NoPlugins ==
    [registered |-> << >>, raising |-> {}, pc |-> "idle", next |-> 0,
     invoked |-> << >>, results |-> << >>]

\* what the hook of a plugin returns when it does not raise
HookResult(plugin_name) == <<"result", plugin_name>>

pluginFrame ==
    UNCHANGED <<engineVars, datasets, samples, vectorVars, tableVars, ingestVars, nextRid,
                served, requests, scan, evaluation, lastImport, lastBulk, worst>>

\* register_plugin: self._plugins[plugin.name] = plugin
register_plugin(plugin_name, raises) ==
    LET known == \E i \in 1..Len(plugins.registered) : plugins.registered[i] = plugin_name
    IN /\ plugins.pc \in {"idle", "returned"}
       /\ known \/ Len(plugins.registered) < MaxPlugins
       /\ plugins' = [NoPlugins EXCEPT
             !.registered = IF known THEN plugins.registered
                            ELSE Append(plugins.registered, plugin_name),
             !.raising = IF raises THEN plugins.raising \cup {plugin_name}
                         ELSE plugins.raising \ {plugin_name}]
       /\ pluginFrame

\* trigger_hook entered: results = []
trigger_hook_enter ==
    /\ plugins.pc \in {"idle", "returned"}
    /\ plugins' = [plugins EXCEPT !.pc = "loop", !.next = 1, !.invoked = << >>,
                                  !.results = << >>]
    /\ pluginFrame

\* one iteration without the try/except around method(**kwargs)
trigger_hook_call_Unguarded ==
    LET plugin_name == plugins.registered[plugins.next]
    IN /\ plugins.pc = "loop"
       /\ plugins.next <= Len(plugins.registered)
       /\ plugins' = [plugins EXCEPT
             !.invoked = Append(@, plugin_name),
             !.pc = IF plugin_name \in plugins.raising THEN "raised" ELSE @,
             !.results = IF plugin_name \in plugins.raising THEN @
                         ELSE Append(@, HookResult(plugin_name)),
             !.next = @ + 1]
       /\ pluginFrame

\* one iteration of the loop over self._plugins.items()
trigger_hook_call ==
    LET plugin_name == plugins.registered[plugins.next]
    IN /\ plugins.pc = "loop"
       /\ plugins.next <= Len(plugins.registered)
       /\ plugins' = [plugins EXCEPT
             !.invoked = Append(@, plugin_name),
             !.results = IF plugin_name \in plugins.raising THEN @
                         ELSE Append(@, HookResult(plugin_name)),
             !.next = @ + 1]
       /\ pluginFrame

\* return results
trigger_hook_return ==
    /\ plugins.pc = "loop"
    /\ plugins.next > Len(plugins.registered)
    /\ plugins' = [plugins EXCEPT !.pc = "returned"]
    /\ pluginFrame

(***************************************************************************)
(* Initial states                                                          *)
(***************************************************************************)
EngineIdle ==
    /\ progress = [k \in TaskKinds |-> [d \in DatasetIds |-> NoTask]]
    /\ workers = << >>
    /\ snapshot = [kind |-> "embed", ds |-> "d1", rec |-> Progress("idle", 0, 0, "")]
    /\ lastResponse = 0

NoRequests ==
    /\ served = 0
    /\ ingest = IdleIngest
    /\ events = << >>
    /\ requests = [i \in Slots |-> IdleRequest]
    /\ hooks = << >>

NoCalc ==
    /\ scan = IdleScan
    /\ evaluation = NoEvaluation
    /\ lastImport = NoImport
    /\ lastBulk = NoBulk
    /\ plugins = NoPlugins
    /\ worst = NoRanking

EmptyTables ==
    /\ annotations = {}
    /\ categories = {}
    /\ savedViews = {}
    /\ overrides = {}

NoVectors ==
    /\ reduced = [d \in DatasetIds |-> {}]
    /\ collection = [d \in DatasetIds |-> [exists |-> FALSE, points |-> NoPoints]]

\* the store after DuckDBRepo.initialize_schema: every table empty
EmptyStore ==
    /\ EngineIdle /\ NoRequests /\ EmptyTables /\ NoVectors
    /\ datasets = [d \in DatasetIds |-> NoDataset]
    /\ samples = {}
    /\ embeddings = [d \in DatasetIds |-> NoPoints]
    /\ nextRid = 0
    /\ allocated = 0

InitStore == EmptyStore /\ NoCalc

\* dataset d1 was ingested from a file of n images and no annotations
Ingested(n) ==
    /\ datasets = [d \in DatasetIds |-> IF d = "d1" THEN DatasetRow(n, 0, 0, 0) ELSE NoDataset]
    /\ samples = {SampleRow(i, "d1", i) : i \in 1..n}
    /\ nextRid = n
    /\ allocated = 1

\* d1 ingested with up to MaxSamples images, d2 does not exist; embeddings of
\* an earlier embed run may be present
InitTasks ==
    /\ EngineIdle /\ NoRequests /\ EmptyTables /\ NoVectors /\ NoCalc
    /\ \E n \in 0..MaxSamples : \E embedded \in BOOLEAN :
         /\ Ingested(n)
         /\ embeddings = [d \in DatasetIds |-> [s \in SampleIds |->
                             IF d = "d1" /\ embedded /\ s <= n THEN 1 ELSE 0]]

\* d1 ingested with MaxSamples images, no tags and no overrides yet
InitTriage ==
    /\ EngineIdle /\ NoRequests /\ EmptyTables /\ NoVectors /\ NoCalc
    /\ Ingested(MaxSamples)
    /\ embeddings = [d \in DatasetIds |-> NoPoints]

\* a worst-image ranking about to run over any dataset of up to MaxSamples samples
InitRanking ==
    /\ EmptyStore
    /\ scan = IdleScan
    /\ evaluation = NoEvaluation
    /\ lastImport = NoImport
    /\ lastBulk = NoBulk
    /\ plugins = NoPlugins
    /\ worst \in LoadedSamples

\* find_near_duplicates about to scan any collection with any query answers
InitNearDup ==
    /\ EmptyStore
    /\ scan \in ScanStates
    /\ evaluation = NoEvaluation
    /\ lastImport = NoImport
    /\ lastBulk = NoBulk
    /\ plugins = NoPlugins
    /\ worst = NoRanking

\* an evaluation request about to match the boxes of one sample
InitEvaluation ==
    /\ EmptyStore
    /\ scan = IdleScan
    /\ lastImport = NoImport
    /\ lastBulk = NoBulk
    /\ plugins = NoPlugins
    /\ worst = NoRanking
    /\ evaluation \in LoadedDetections

(***************************************************************************)
(* SpecTasks: launch handlers and background workers                       *)
(***************************************************************************)
\* launch handlers and background workers, MaxLaunch accepted launches
NextTasks ==
    \/ \E k \in TaskKinds, d \in DatasetIds : LaunchAccepted(k, d, MaxLaunch)
    \/ \E k \in TaskKinds, d \in DatasetIds : LaunchConflict(k, d)
    \/ \E k \in TaskKinds, d \in DatasetIds : LaunchRejected(k, d)
    \/ \E w \in 1..Len(workers) : WorkerStart(w)
    \/ \E w \in 1..Len(workers) : WorkerCursor(w)
    \/ \E w \in 1..Len(workers) : WorkerCount(w)
    \/ \E w \in 1..Len(workers) : WorkerEmptyStatus(w)
    \/ \E w \in 1..Len(workers) : WorkerEmptyMessage(w)
    \/ \E w \in 1..Len(workers) : EmbedDelete(w)
    \/ \E w \in 1..Len(workers) : EmbedBatch(w)
    \/ \E w \in 1..Len(workers) : TagBatch(w)
    \/ \E w \in 1..Len(workers) : TagSample(w)
    \/ \E w \in 1..Len(workers) : WorkerCompleteStatus(w)
    \/ \E w \in 1..Len(workers) : WorkerCompleteProcessed(w)
    \/ \E w \in 1..Len(workers) : WorkerCompleteMessage(w)
    \/ \E w \in 1..Len(workers) : WorkerExceptStatus(w)
    \/ \E w \in 1..Len(workers) : WorkerExceptMessage(w)
    \/ \E w \in 1..Len(workers) : ReduceSelect(w)
    \/ \E w \in 1..Len(workers) : ReduceFit(w)
    \/ \E w \in 1..Len(workers) : ReduceUpdate(w)
    \/ \E w \in 1..Len(workers) : NearDupEnsure(w)
    \/ \E w \in 1..Len(workers) : NearDupScroll(w)
    \/ \E w \in 1..Len(workers) : NearDupScan(w)
    \/ \E w \in 1..Len(workers) : NearDupGroup(w)
    \/ \E w \in 1..Len(workers) : NearDupFinish(w)

SpecTasks == InitTasks /\ [][NextTasks]_vars

(***************************************************************************)
(* SpecVectors: embed runs, near-duplicate scans and similarity searches   *)
(***************************************************************************)
VectorKinds == {"embed", "near_duplicate"}

NextVectors ==
    \/ \E k \in VectorKinds, d \in DatasetIds : LaunchAccepted(k, d, MaxLaunch)
    \/ \E d \in DatasetIds, s \in SampleIds : search_similar(d, s, MaxRequests)
    \/ \E w \in 1..Len(workers) : WorkerStart(w)
    \/ \E w \in 1..Len(workers) : WorkerCursor(w)
    \/ \E w \in 1..Len(workers) : WorkerCount(w)
    \/ \E w \in 1..Len(workers) : WorkerEmptyStatus(w)
    \/ \E w \in 1..Len(workers) : WorkerEmptyMessage(w)
    \/ \E w \in 1..Len(workers) : EmbedDelete(w)
    \/ \E w \in 1..Len(workers) : EmbedBatch(w)
    \/ \E w \in 1..Len(workers) : WorkerCompleteStatus(w)
    \/ \E w \in 1..Len(workers) : WorkerCompleteProcessed(w)
    \/ \E w \in 1..Len(workers) : WorkerCompleteMessage(w)
    \/ \E w \in 1..Len(workers) : WorkerExceptStatus(w)
    \/ \E w \in 1..Len(workers) : WorkerExceptMessage(w)
    \/ \E w \in 1..Len(workers) : NearDupEnsure(w)
    \/ \E w \in 1..Len(workers) : NearDupScroll(w)
    \/ \E w \in 1..Len(workers) : NearDupScan(w)
    \/ \E w \in 1..Len(workers) : NearDupGroup(w)
    \/ \E w \in 1..Len(workers) : NearDupFinish(w)

SpecVectors == InitTasks /\ [][NextVectors]_vars

\* one task run observed by a progress stream
NextStream ==
    \/ \E k \in TaskKinds, d \in DatasetIds : LaunchAccepted(k, d, MaxStreamRuns)
    \/ \E k \in TaskKinds, d \in DatasetIds : LaunchConflict(k, d)
    \/ \E k \in TaskKinds, d \in DatasetIds : LaunchRejected(k, d)
    \/ \E w \in 1..Len(workers) : WorkerStart(w)
    \/ \E w \in 1..Len(workers) : WorkerCursor(w)
    \/ \E w \in 1..Len(workers) : WorkerCount(w)
    \/ \E w \in 1..Len(workers) : WorkerEmptyStatus(w)
    \/ \E w \in 1..Len(workers) : WorkerEmptyMessage(w)
    \/ \E w \in 1..Len(workers) : EmbedDelete(w)
    \/ \E w \in 1..Len(workers) : EmbedBatch(w)
    \/ \E w \in 1..Len(workers) : TagBatch(w)
    \/ \E w \in 1..Len(workers) : TagSample(w)
    \/ \E w \in 1..Len(workers) : WorkerCompleteStatus(w)
    \/ \E w \in 1..Len(workers) : WorkerCompleteProcessed(w)
    \/ \E w \in 1..Len(workers) : WorkerCompleteMessage(w)
    \/ \E w \in 1..Len(workers) : WorkerExceptStatus(w)
    \/ \E w \in 1..Len(workers) : WorkerExceptMessage(w)
    \/ \E w \in 1..Len(workers) : ReduceSelect(w)
    \/ \E w \in 1..Len(workers) : ReduceFit(w)
    \/ \E w \in 1..Len(workers) : ReduceUpdate(w)
    \/ \E w \in 1..Len(workers) : NearDupEnsure(w)
    \/ \E w \in 1..Len(workers) : NearDupScroll(w)
    \/ \E w \in 1..Len(workers) : NearDupScan(w)
    \/ \E w \in 1..Len(workers) : NearDupGroup(w)
    \/ \E w \in 1..Len(workers) : NearDupFinish(w)
    \/ \E k \in TaskKinds, d \in DatasetIds : ReadProgress(k, d)

SpecStream == InitTasks /\ [][NextStream]_vars

(***************************************************************************)
(* SpecIngest: ingestion requests served one after the other               *)
(***************************************************************************)
NextIngest ==
    \/ \E f \in CocoFiles : StartIngest(f, MaxIngests)
    \/ \E fs \in SplitLists : ImportSplits(fs, MaxIngests)
    \/ IngestCategories
    \/ IngestImageBatch
    \/ IngestAnnotationBatch
    \/ IngestRecord
    \/ IngestComplete
    \/ IngestNextSplit
    \/ IngestRaise

SpecIngest == InitStore /\ [][NextIngest]_vars

(***************************************************************************)
(* SpecClose: ingestion requests whose client may hang up at any event     *)
(***************************************************************************)
NextClose ==
    \/ NextIngest
    \/ IngestClose

SpecClose == InitStore /\ [][NextClose]_vars

(***************************************************************************)
(* SpecStore: ingestion, prediction import, annotation editing, saved      *)
(* views, triage overrides and dataset deletion on an initially empty      *)
(* store; every statement of an ingestion succeeds                         *)
(***************************************************************************)
NextStore ==
    \/ \E f \in CocoFiles : StartIngest(f, MaxRequests)
    \/ \E fs \in SplitLists : ImportSplits(fs, MaxRequests)
    \/ IngestCategories
    \/ IngestImageBatch
    \/ IngestAnnotationBatch
    \/ IngestRecord
    \/ IngestComplete
    \/ IngestNextSplit
    \/ \E d \in PublishedIds, p \in PredictionPaths, f \in PredictionFormats, n \in RunNames :
          import_predictions(d, PredictionImportRequest(p, f, n), MaxRequests)
    \/ \E d \in PublishedIds, s \in SampleIds, c \in CategoryNames :
          create_annotation(d, s, c, DrawnBox, MaxRequests)
    \/ \E id \in AnnotationIds : delete_annotation(id, MaxRequests)
    \/ \E d \in PublishedIds : create_view(d, MaxRequests)
    \/ \E d \in PublishedIds : delete_dataset(d, MaxRequests)
    \/ \E a \in OverrideAnnotations, d \in PublishedIds, s \in SampleIds :
          set_annotation_triage_delete(1, a, d, s, "fp", MaxRequests, 1)
    \/ set_annotation_triage_insert(1)
    \/ set_annotation_triage_tag(1)

SpecStore == InitStore /\ [][NextStore]_vars

(***************************************************************************)
(* SpecCounts: the requests that maintain the dataset counters, with       *)
(* prediction runs named other than ground_truth                           *)
(***************************************************************************)
NextCounts ==
    \/ \E f \in CocoFiles : StartIngest(f, MaxRequests)
    \/ \E fs \in SplitLists : ImportSplits(fs, MaxRequests)
    \/ IngestCategories
    \/ IngestImageBatch
    \/ IngestAnnotationBatch
    \/ IngestRecord
    \/ IngestComplete
    \/ IngestNextSplit
    \/ \E d \in PublishedIds, p \in PredictionPaths \ {GroundTruthFile},
          f \in PredictionFormats, n \in RunNames \ {"ground_truth"} :
          import_predictions(d, PredictionImportRequest(p, f, n), MaxRequests)
    \/ \E d \in PublishedIds, s \in SampleIds, c \in CategoryNames :
          create_annotation(d, s, c, DrawnBox, MaxRequests)
    \/ \E id \in AnnotationIds : delete_annotation(id, MaxRequests)

SpecCounts == InitStore /\ [][NextCounts]_vars

(***************************************************************************)
(* SpecOverrides: annotation-triage requests served one after the other    *)
(***************************************************************************)
NextOverrides ==
    \/ \E l \in RequestedLabels : set_annotation_triage_invalid(l, MaxTriage)
    \/ \E a \in OverrideAnnotations, d \in DatasetIds, s \in SampleIds, l \in RequestedLabels :
          set_annotation_triage_delete(1, a, d, s, l, MaxTriage, 1)
    \/ set_annotation_triage_insert(1)
    \/ set_annotation_triage_tag(1)
    \/ \E a \in OverrideAnnotations, d \in DatasetIds, s \in SampleIds :
          delete_annotation_triage_delete(1, s, a, d, MaxTriage, 1)
    \/ delete_annotation_triage_count(1)
    \/ delete_annotation_triage_untag(1)

SpecOverrides == InitTriage /\ [][NextOverrides]_vars

(***************************************************************************)
(* SpecTriage: annotation-triage handlers running concurrently with each   *)
(* other and with the sample triage-tag requests                           *)
(***************************************************************************)
NextTriage ==
    \/ \E l \in RequestedLabels : set_annotation_triage_invalid(l, MaxTriage)
    \/ \E i \in Slots, a \in OverrideAnnotations, d \in DatasetIds, s \in SampleIds,
          l \in RequestedLabels :
          set_annotation_triage_delete(i, a, d, s, l, MaxTriage, MaxInFlight)
    \/ \E i \in Slots : set_annotation_triage_insert(i)
    \/ \E i \in Slots : set_annotation_triage_tag(i)
    \/ \E i \in Slots, a \in OverrideAnnotations, d \in DatasetIds, s \in SampleIds :
          delete_annotation_triage_delete(i, s, a, d, MaxTriage, MaxInFlight)
    \/ \E i \in Slots : delete_annotation_triage_count(i)
    \/ \E i \in Slots : delete_annotation_triage_untag(i)
    \/ \E d \in DatasetIds, s \in SampleIds, t \in RequestedTriageTags :
          set_triage_tag(d, s, t, MaxTriage)
    \/ \E d \in DatasetIds, s \in SampleIds : remove_triage_tag(d, s, MaxTriage)

SpecTriage == InitTriage /\ [][NextTriage]_vars

(***************************************************************************)
(* SpecTags: SpecTriage with the bulk tag requests                         *)
(***************************************************************************)
NextTags ==
    \/ NextTriage
    \/ \E r \in BulkTagRequests : bulk_add_tag(r, MaxTriage)
    \/ \E r \in BulkTagRequests : bulk_remove_tag(r, MaxTriage)

SpecTags == InitTriage /\ [][NextTags]_vars

(***************************************************************************)
(* SpecPlugins: registrations and hook dispatches of one PluginRegistry    *)
(***************************************************************************)
NextPlugins ==
    \/ \E p \in PluginNames : \E raises \in BOOLEAN : register_plugin(p, raises)
    \/ trigger_hook_enter
    \/ trigger_hook_call
    \/ trigger_hook_return

SpecPlugins == InitStore /\ [][NextPlugins]_vars

(***************************************************************************)
(* SpecRanking: the worst-image ranking of one dataset                     *)
(***************************************************************************)
NextRanking ==
    \/ categorize_sample
    \/ compute_worst_images

SpecRanking == InitRanking /\ [][NextRanking]_vars

(***************************************************************************)
(* SpecNearDup: the scan loop and the grouping of find_near_duplicates     *)
(***************************************************************************)
NextNearDup ==
    \/ ScanQuery
    \/ ScanUnion
    \/ ScanGroups

SpecNearDup == InitNearDup /\ [][NextNearDup]_vars

(***************************************************************************)
(* SpecEvaluation: the four matchers on every loaded sample                *)
(***************************************************************************)
NextEvaluation ==
    \/ compute_pr_curves
    \/ get_confusion_cell_samples
    \/ categorize_errors
    \/ match_sample_annotations

SpecEvaluation == InitEvaluation /\ [][NextEvaluation]_vars

(***************************************************************************)
(* SpecImport: ingestion, prediction imports of every path, format and run *)
(* name, and annotation creation                                           *)
(***************************************************************************)
NextImport ==
    \/ \E f \in CocoFiles : StartIngest(f, MaxRequests)
    \/ IngestImageBatch
    \/ IngestAnnotationBatch
    \/ IngestRecord
    \/ IngestComplete
    \/ \E d \in PublishedIds, p \in PredictionPaths, f \in PredictionFormats, n \in RunNames :
          import_predictions(d, PredictionImportRequest(p, f, n), MaxRequests)
    \/ \E d \in PublishedIds, s \in SampleIds, c \in CategoryNames :
          create_annotation(d, s, c, DrawnBox, MaxRequests)

SpecImport == InitStore /\ [][NextImport]_vars

(***************************************************************************)
(* SpecBoxes: ingestion, prediction imports, annotation creates and        *)
(* updates with any box                                                    *)
(***************************************************************************)
NextBoxes ==
    \/ \E f \in CocoFiles : StartIngest(f, MaxRequests)
    \/ IngestImageBatch
    \/ IngestAnnotationBatch
    \/ IngestRecord
    \/ IngestComplete
    \/ \E d \in PublishedIds, p \in PredictionPaths \ {GroundTruthFile},
          f \in PredictionFormats, n \in RunNames \ {"ground_truth"} :
          import_predictions(d, PredictionImportRequest(p, f, n), MaxRequests)
    \/ \E d \in PublishedIds, s \in SampleIds, c \in CategoryNames, b \in RequestedBoxes :
          create_annotation(d, s, c, b, MaxRequests)
    \/ \E id \in AnnotationIds, b \in RequestedBoxes : update_annotation(id, b, MaxRequests)

SpecBoxes == InitStore /\ [][NextBoxes]_vars

(***************************************************************************)
(* Claims about the task engine                                            *)
(***************************************************************************)
\* program positions after the worker has written a terminal status
AfterTerminal == {"done", "empty_msg", "complete_processed", "complete_msg", "except_msg"}

\* accepted tasks of (kind, d) that have not reached complete or error yet
Unfinished(kind, d) ==
    {w \in 1..Len(workers) :
        workers[w].kind = kind /\ workers[w].ds = d /\ workers[w].pc \notin AfterTerminal}

\* C1: once a launch for (D, kind) was accepted, no further launch of that
\* kind for D is accepted before the task reached complete or error, so at
\* most one accepted task per (D, kind) is unfinished at any time
C1_AtMostOneUnfinishedTask ==
    \A k \in TaskKinds, d \in DatasetIds : Cardinality(Unfinished(k, d)) <= 1

TerminalStatuses == {"complete", "error"}

\* C8: no worker exits leaving a non-terminal status: once a task of (D, kind)
\* has returned and no other task of (D, kind) is queued or running, the
\* progress record of (D, kind) is complete or error
C8_ExitedWorkerLeftTerminalStatus ==
    \A k \in TaskKinds, d \in DatasetIds :
        ( /\ \E w \in 1..Len(workers) :
                workers[w].kind = k /\ workers[w].ds = d /\ workers[w].pc = "done"
          /\ \A w \in 1..Len(workers) :
                (workers[w].kind = k /\ workers[w].ds = d) => workers[w].pc = "done" )
        => progress[k][d].status \in TerminalStatuses

\* the records a worker publishes at its checkpoints
CompletionMessages == {"done", "No samples", "Reduced", "Found groups", "No embeddings found"}
ErrorMessages == {"str(e)", "No embeddings found", "Detection failed -- check server logs"}

IsCheckpoint(rec) ==
    /\ rec.status = "complete" =>
          (rec.processed = rec.total /\ rec.message \in CompletionMessages)
    /\ rec.status = "error" => rec.message \in ErrorMessages
    /\ rec.processed <= rec.total

\* C9: every snapshot a progress stream obtains is a checkpoint record: a
\* complete snapshot has processed = total and the completion message, an
\* error snapshot carries the error message
C9_SnapshotIsCheckpoint == IsCheckpoint(snapshot.rec)

(***************************************************************************)
(* Claims about the store, the ingestion generator and the triage overlay  *)
(***************************************************************************)
\* rows of D whose source is ground_truth
GroundTruthRows(rows, d) == {a \in rows : a.ds = d /\ a.source = "ground_truth"}

\* no request is part-way through its statements
Quiescent ==
    /\ IngestFinished
    /\ \A i \in Slots : requests[i] = IdleRequest

\* C2: after any sequence of ingests, prediction imports, annotation creates
\* and deletes, the stored annotation_count of every dataset equals the
\* number of its annotation rows whose source is ground_truth
C2_AnnotationCountIsGroundTruthRows ==
    Quiescent =>
        \A d \in DatasetIds :
            datasets[d] # NoDataset =>
                datasets[d].annotation_count = Cardinality(GroundTruthRows(annotations, d))

\* the stages of one ingestion run in the order the generator passes them
IngestStages ==
    <<"categories", "parsing_images", "parsing_annotations", "thumbnails", "complete">>
StageRank(stage) == CHOOSE i \in 1..Len(IngestStages) : IngestStages[i] = stage
CountStage(ev, stage) == Cardinality({i \in 1..Len(ev) : ev[i] = stage})

\* one categories event first, at least minImages parsing_images events, any
\* number of parsing_annotations events, one thumbnails event penultimate,
\* one complete event last, no stage after a later one
EventShape(ev, minImages) ==
    /\ Len(ev) >= 2
    /\ \A i \in 1..Len(ev) : \E k \in 1..Len(IngestStages) : ev[i] = IngestStages[k]
    /\ \A i \in 1..Len(ev), j \in 1..Len(ev) :
          i < j => StageRank(ev[i]) <= StageRank(ev[j])
    /\ ev[1] = "categories" /\ CountStage(ev, "categories") = 1
    /\ CountStage(ev, "parsing_images") >= minImages
    /\ ev[Len(ev) - 1] = "thumbnails" /\ CountStage(ev, "thumbnails") = 1
    /\ ev[Len(ev)] = "complete" /\ CountStage(ev, "complete") = 1

\* a single-split ingestion run has yielded its last event
SuccessfulSingleRun == ingest.pc = "complete" /\ ~ingest.multi

\* C3 (as amended): the events of a successful single-split run are one
\* categories event, then parsing_images events (at least one when the file
\* lists an image, none when it lists no image), then zero or more
\* parsing_annotations events, then one thumbnails event, then one complete
\* event, in that order
C3_EventOrder ==
    SuccessfulSingleRun =>
        EventShape(events, IF Len(ingest.file.images) > 0 THEN 1 ELSE 0)

\* C3 witness: a successful single-split run that yielded image and annotation events
C3_RunWithImagesAndAnnotations ==
    /\ SuccessfulSingleRun
    /\ CountStage(events, "parsing_images") >= 1
    /\ CountStage(events, "parsing_annotations") >= 1

\* C3 (as stated): every successful single-split run has at least one
\* parsing_images event
C3_EventOrderAsStated == SuccessfulSingleRun => EventShape(events, 1)

\* override rows of a sample row
OverridesOf(s) == {o \in overrides : o.ds = s.ds /\ o.sample = s.id}

\* C4: after any sequence and interleaving of annotation-triage and
\* triage-tag requests, every sample with at least one override row carries
\* triage:annotated
C4_OverriddenSampleIsAnnotated ==
    Quiescent =>
        \A s \in samples : OverridesOf(s) # {} => "triage:annotated" \in s.tags

\* C5: after any sequence of annotation-triage PATCH and DELETE requests, a
\* sample for which no override row remains does not carry triage:annotated
C5_NoOverrideNoAnnotatedTag ==
    Quiescent =>
        \A s \in samples : OverridesOf(s) = {} => "triage:annotated" \notin s.tags

\* C6: a prediction import into D leaves the ground_truth rows of D as they were
C6_ImportKeepsGroundTruth ==
    [][\A d \in DatasetIds, p \in PredictionPaths, f \in PredictionFormats, n \in RunNames :
          import_predictions(d, PredictionImportRequest(p, f, n), MaxRequests) =>
              GroundTruthRows(annotations', d) = GroundTruthRows(annotations, d)]_vars

\* C7: after a successful DELETE of dataset D (served while no other request
\* is part-way through its statements) no sample, annotation, category,
\* embedding, saved view or triage override row of D remains and the vector
\* collection of D does not exist
C7_DeleteLeavesNothing ==
    [][\A d \in DatasetIds :
          (Quiescent /\ delete_dataset(d, MaxRequests) /\ lastResponse' = 204) =>
              /\ \A s \in samples' : s.ds # d
              /\ \A a \in annotations' : a.ds # d
              /\ \A c \in categories' : c.ds # d
              /\ embeddings'[d] = NoPoints
              /\ \A v \in savedViews' : v.ds # d
              /\ \A o \in overrides' : o.ds # d
              /\ ~collection'[d].exists]_vars

\* triage tags of a sample other than triage:annotated
TriageTagsOf(s) == {x \in s.tags : starts_with(x, TRIAGE_PREFIX) /\ x # "triage:annotated"}

\* C10: after any sequence of tag-mutating requests every sample carries at
\* most one triage: tag other than triage:annotated
C10_AtMostOneTriageTag ==
    Quiescent => \A s \in samples : Cardinality(TriageTagsOf(s)) <= 1

\* the (sample, neighbour) pairs found by the scan, taken in both directions
ScanEdges ==
    {e \in scan.points \X scan.points :
        e[1] # e[2] /\ (e[2] \in scan.answers[e[1]] \/ e[1] \in scan.answers[e[2]])}

RECURSIVE Reachable(_)
Reachable(S) ==
    LET step == S \cup {e[2] : e \in {x \in ScanEdges : x[1] \in S}}
    IN IF step = S THEN S ELSE Reachable(step)

ConnectedComponents == {Reachable({p}) : p \in scan.points}

\* C11: the groups returned by near-duplicate detection are exactly the
\* connected components of size at least 2 of the graph of the (sample,
\* neighbour) pairs found by the scan.
C11_GroupsAreComponents ==
    scan.pc = "complete" =>
        scan.groups = {c \in ConnectedComponents : Cardinality(c) >= 2}

\* C12: after every ingest, every prediction-import request (accepted or
\* rejected) and every annotation create or delete, the stored
\* prediction_count of a dataset is the number of its annotation rows whose
\* source is not ground_truth
C12_PredictionCountIsPredictionRows ==
    Quiescent =>
        \A d \in DatasetIds :
            datasets[d] # NoDataset =>
                datasets[d].prediction_count = PredictionRowCount(annotations, d)

\* SELECT COUNT(DISTINCT category_name) FROM annotations WHERE dataset_id = d
DistinctCategoryNames(rows, d) == {r.category_name : r \in {a \in rows : a.ds = d}}

\* C13: after any sequence of single-split or multi-split ingests, prediction
\* imports, annotation creates and annotation deletes, the stored
\* category_count of a dataset is the number of distinct category_name values
\* of its annotation rows
C13_CategoryCountIsDistinctNames ==
    Quiescent =>
        \A d \in DatasetIds :
            datasets[d] # NoDataset =>
                datasets[d].category_count =
                    Cardinality(DistinctCategoryNames(annotations, d))

\* the values of a row other than its identity
RowValue(a) == <<a.sample, a.category_name, a.bbox_w, a.bbox_h, a.area>>

\* the values of the rows of one run: how many rows carry each value
RunContent(rows, d, run_name) ==
    LET of_run == {a \in rows : a.ds = d /\ a.source = run_name}
    IN [v \in {RowValue(a) : a \in of_run} |->
           Cardinality({a \in of_run : RowValue(a) = v})]

ImportRunName(req) ==
    IF req.run_name # "" THEN req.run_name ELSE derive_run_name(req.path, req.format)

\* the request repeats the latest import, and the store is as that import left it
Reimport(d, req) ==
    /\ lastImport.ds = d
    /\ lastImport.req = req
    /\ lastImport.store = ImportStore(annotations)

NoSetAnnotationTriageInProgress == \A i \in Slots : requests[i].op # "set"

\* C15: whenever no set-annotation-triage request is in progress there is at
\* most one override row per (dataset_id, annotation_id), also after several
\* PATCH requests for one annotation were handled concurrently
C15_OneOverridePerAnnotation ==
    NoSetAnnotationTriageInProgress =>
        \A o1 \in overrides, o2 \in overrides :
            (o1.ds = o2.ds /\ o1.ann = o2.ann) => o1 = o2

\* C16: when the ingestion generator is closed early at one of its yield
\* points, every sample and annotation row it inserted belongs to an existing
\* dataset row whose counters equal the numbers of rows present
C16_ClosedRunLeavesConsistentStore ==
    ingest.pc = "closed" =>
        LET d == ingest.ds
            sample_rows == {r \in samples : r.ds = d}
            annotation_rows == {r \in annotations : r.ds = d}
        IN (sample_rows \cup annotation_rows # {}) =>
              /\ datasets[d] # NoDataset
              /\ datasets[d].image_count = Cardinality(sample_rows)
              /\ datasets[d].annotation_count = Cardinality(annotation_rows)

\* positions in hooks of the dispatches of one hook
HookCalls(hook_name) == {i \in 1..Len(hooks) : hooks[i].name = hook_name}

\* on_ingest_start was dispatched once, first, with nothing stored or yielded
StartHookFirst ==
    /\ Cardinality(HookCalls("on_ingest_start")) = 1
    /\ hooks[1].name = "on_ingest_start"
    /\ hooks[1].stored = 0
    /\ hooks[1].events = << >>

\* on_ingest_complete was dispatched once, with everything stored and the
\* complete event not yet yielded
CompleteHookLast ==
    /\ Cardinality(HookCalls("on_ingest_complete")) = 1
    /\ \A i \in HookCalls("on_ingest_complete") :
          /\ hooks[i].stored = StoredRows(ingest.ds)
          /\ CountStage(hooks[i].events, "complete") = 0
          /\ i = Len(hooks)

SingleSplitRun == ~ingest.multi /\ ingest.pc # "idle"

\* C17 (amended): in every single-split ingestion run on_ingest_start is
\* dispatched exactly once, before the first row is inserted; in every run
\* that emits its complete event on_ingest_complete is dispatched exactly
\* once, after the last insert and before that event, and in no other run
C17_HooksAroundCompletedRun ==
    SingleSplitRun =>
        /\ StartHookFirst
        /\ (ingest.pc = "complete") => CompleteHookLast
        /\ (ingest.pc # "complete") => HookCalls("on_ingest_complete") = {}

\* a single-split run with images and annotations has emitted complete
C17_CompletedRunWithRows ==
    /\ SingleSplitRun
    /\ ingest.pc = "complete"
    /\ ingest.image_count > 0 /\ ingest.ann_count > 0
    /\ Len(hooks) = 2

\* C17 as stated: in every single-split ingestion run, however it ends, both
\* hooks are dispatched exactly once, on_ingest_start before the first insert
\* and on_ingest_complete after the last insert and before the complete event
C17_HooksInEveryRun ==
    (SingleSplitRun /\ IngestFinished) => (StartHookFirst /\ CompleteHookLast)

\* C18: in every matcher (PR curves, confusion cell, error categoriser,
\* per-annotation matcher), within one sample no ground-truth box is matched
\* to two predictions and no prediction to two ground-truth boxes
C18_MatchingIsOneToOne ==
    evaluation.pc = "done" =>
        \A p \in evaluation.pairs, q \in evaluation.pairs :
            (p[1] = q[1] \/ p[2] = q[2]) => p = q

\* two predictions of a ground-truth box's class both reach the IoU and the
\* confidence threshold on it, and the matcher has matched the box
C18_TwoPredictionsContendForOneBox ==
    LET e == evaluation
    IN /\ e.pc = "done"
       /\ e.pairs # {}
       /\ \E gi \in 1..Len(e.gt), i \in 1..Len(e.preds), j \in 1..Len(e.preds) :
             /\ i # j
             /\ \A k \in {i, j} :
                   /\ e.preds[k].cat = e.gt[gi].cat
                   /\ e.preds[k].conf >= e.conf_threshold
                   /\ IouAtLeast(compute_iou(e.preds[k].box, e.gt[gi].box), e.iou_threshold)
             /\ \E p \in e.pairs : p[2] = gi

\* C19: in the per-class output of the error categoriser, for every class the
\* true-positive count plus the false-negative count equals the number of
\* ground-truth boxes of that class in the evaluated sample
C19_TpPlusFnIsGroundTruthCount ==
    LET e == evaluation
    IN (e.pc = "done" /\ e.matcher = "categorize_errors") =>
          \A c \in DOMAIN e.per_class :
              e.per_class[c].tp + e.per_class[c].fn
                = Cardinality({gi \in 1..Len(e.gt) : e.gt[gi].cat = c})

\* C20: after any sequence of ingests, prediction imports and annotation
\* creates, the (dataset_id, sample_id) of every annotation row identifies a
\* sample row of the same dataset
C20_AnnotationsReferToSamples ==
    Quiescent =>
        \A a \in annotations : \E s \in samples : s.ds = a.ds /\ s.id = a.sample

(***************************************************************************)
(* C21: for any tag T, sample set S and any prior tag lists (samples that  *)
(* already carry T included), bulk-tag(T, S) followed by bulk-untag(T, S)  *)
(* returns every sample of S to the set of tags it had before the bulk-tag.*)
(***************************************************************************)
\* the step is the bulk-untag of the request the latest bulk-tag served, taken
\* on the sample rows that bulk-tag left
UntagAfterTag(req) ==
    /\ lastBulk.served
    /\ lastBulk.req = req
    /\ lastBulk.after = samples
    /\ bulk_remove_tag(req, MaxTriage)

\* the rows of the request's sample set before the bulk-tag
TaggedBefore(req) ==
    {s \in lastBulk.before : s.ds = req.dataset_id /\ s.id \in req.sample_ids}

C21_UntagAfterTagRestoresTags ==
    [][\A req \in BulkTagRequests :
         UntagAfterTag(req) =>
            \A b \in TaggedBefore(req) :
               \E s \in samples' : s.rid = b.rid /\ s.tags = b.tags]_vars

(***************************************************************************)
(* C22: trigger_hook never raises: whichever registered plugins raise in   *)
(* the hook, every registered plugin's hook is invoked exactly once in     *)
(* registration order, and the returned list holds exactly the return      *)
(* values of the plugins that did not raise.                               *)
(***************************************************************************)
\* the return values of the plugins of `registered` that do not raise, in order
RECURSIVE ResultsOf(_, _)
ResultsOf(registered, raising) ==
    IF registered = << >> THEN << >>
    ELSE LET rest == ResultsOf(Tail(registered), raising)
         IN IF Head(registered) \in raising THEN rest
            ELSE <<HookResult(Head(registered))>> \o rest

C23_BoxesAreWellFormed ==
    (Quiescent /\ IngestFinished) =>
       \A a \in annotations :
          /\ a.bbox_w >= 0
          /\ a.bbox_h >= 0
          /\ a.area = a.bbox_w * a.bbox_h

(***************************************************************************)
(* C24: in PR-curve construction a prediction is tagged true positive      *)
(* exactly when, at its turn in confidence-descending order within its     *)
(* sample, the highest-IoU ground-truth box of its class among those not   *)
(* yet matched has IoU >= T; a ground-truth box that is already matched is *)
(* never the candidate that decides the outcome.                           *)
(***************************************************************************)
\* the ground-truth boxes matched before the turn of the prediction at position k
MatchedBefore(pairs, k) == {p[2] : p \in {q \in pairs : q[1] < k}}

\* the best box of the prediction's class among the boxes not in `matched`
\* reaches the threshold
BestFreeBoxQualifies(gt, pred, thr, matched) ==
    LET ious == IousOf(pred, gt)
        free == {gi \in 1..Len(gt) : gi \notin matched /\ gt[gi].cat = pred.cat}
    IN free # {} /\ IouAtLeast(ious[FirstMax(ious, free)], thr)

C24_TruePositiveIffBestFreeBoxQualifies ==
    LET e == evaluation
    IN (e.pc = "done" /\ e.matcher = "pr_curves") =>
          \A order \in DescendingOrders([i \in 1..Len(e.preds) |-> e.preds[i].conf]) :
             LET sorted == Reordered(e.preds, order)
             IN pr_matching(e.gt, sorted, e.iou_threshold, 1, NoMatches).pairs = e.pairs =>
                   \A k \in 1..Len(sorted) :
                      (\E p \in e.pairs : p[1] = k)
                         <=> BestFreeBoxQualifies(e.gt, sorted[k], e.iou_threshold,
                                                  MatchedBefore(e.pairs, k))

(***************************************************************************)
(* C25: the error categoriser labels a prediction TP whenever, at its      *)
(* turn, the sample has a not-yet-consumed ground-truth box of the same    *)
(* class with IoU >= T; it labels it label_error only when the unconsumed  *)
(* box it overlaps at IoU >= T has a different class and no same-class one *)
(* qualifies.                                                              *)
(***************************************************************************)
\* the boxes not in `matched` whose IoU with the prediction reaches the threshold
QualifyingFreeBoxes(gt, pred, thr, matched) ==
    {gi \in 1..Len(gt) : gi \notin matched /\ IouAtLeast(IousOf(pred, gt)[gi], thr)}

\* the label the categoriser gave to the prediction at position k
ErrorLabel(gt, sorted, pairs, k) ==
    IF \E p \in pairs : p[1] = k
    THEN LET gi == (CHOOSE p \in pairs : p[1] = k)[2]
         IN IF gt[gi].cat = sorted[k].cat THEN "tp" ELSE "label_error"
    ELSE "hard_fp"

C25_SameClassBoxMakesTruePositive ==
    LET e == evaluation
        sorted == categorized_preds(e.preds, e.conf_threshold)
    IN (e.pc = "done" /\ e.matcher = "categorize_errors") =>
          \A k \in 1..Len(sorted) :
             LET free == QualifyingFreeBoxes(e.gt, sorted[k], e.iou_threshold,
                                             MatchedBefore(e.pairs, k))
                 same == {gi \in free : e.gt[gi].cat = sorted[k].cat}
                 label == ErrorLabel(e.gt, sorted, e.pairs, k)
             IN /\ same # {} => label = "tp"
                /\ label = "label_error" => (same = {} /\ free # {})

(***************************************************************************)
(* C26: categorize_errors categorises exactly those predictions whose      *)
(* confidence (null treated as 1.0) is >= conf_threshold and walks them in *)
(* confidence-descending order, so for any single sample it assigns each   *)
(* prediction the same label as match_sample_annotations does (hard_fp     *)
(* corresponding to fp).                                                   *)
(***************************************************************************)
\* the predictions the categoriser walked are the ones match_sample_annotations
\* walks, in the same order (both sort with list.sort), and the matches that
\* give the labels are the same
C26_CategoriserWalksConfidentPredictions ==
    LET e == evaluation
        walked == categorized_preds(e.preds, e.conf_threshold)
        expected == confident_preds(e.preds, e.conf_threshold)
    IN (e.pc = "done" /\ e.matcher = "categorize_errors") =>
          /\ \A k \in 1..Len(walked) : walked[k].conf >= e.conf_threshold
          /\ walked = expected
          /\ e.pairs = error_matching(e.gt, expected, e.iou_threshold, 1, NoMatches).pairs

(***************************************************************************)
(* C27: for every sample s returned by the worst-image ranking, the        *)
(* reported error_count equals the total number of hard_fp, label_error    *)
(* and false_negative detections the error categoriser finds on s,         *)
(* whatever the number of errors in the rest of the dataset.               *)
(***************************************************************************)
\* the errors the categoriser finds on one sample
ErrorsFound(det) ==
    LET counts == sample_counts(det, CHOOSE t \in IouThresholds : TRUE,
                                CHOOSE c \in ConfThresholds : TRUE)
    IN TypeCount(counts, "hard_fp") + TypeCount(counts, "label_error")
         + TypeCount(counts, "false_negative")

C27_ErrorCountIsErrorsFound ==
    worst.pc = "ranked" =>
       \A r \in worst.scored : r.error_count = ErrorsFound(worst.samples[r.sample_id])

(***************************************************************************)
(* C28: after any number of embed runs for dataset D, launches whose       *)
(* workers overlap in time included, once no embed worker for D is active  *)
(* the embeddings table holds at most one row per (D, sample_id).          *)
(***************************************************************************)
\* every accepted embed task of d has returned
NoEmbedWorkerActive(d) ==
    \A w \in 1..Len(workers) :
        (workers[w].kind = "embed" /\ workers[w].ds = d) => workers[w].pc = "done"

C28_OneEmbeddingRowPerSample ==
    \A d \in DatasetIds :
        NoEmbedWorkerActive(d) => \A s \in SampleIds : embeddings[d][s] <= 1

(***************************************************************************)
(* C29: whenever a similarity search or near-duplicate scan for dataset D  *)
(* runs after an embed run for D has completed, the vector collection it   *)
(* queries holds exactly one point per sample that has a non-null vector   *)
(* in the embeddings table at that time, whether or not the collection had *)
(* been created before that embed run.                                     *)
(***************************************************************************)
\* an embed run of d has completed and none is queued or running
EmbedRunCompleted(d) ==
    /\ \E w \in 1..Len(workers) :
          workers[w].kind = "embed" /\ workers[w].ds = d /\ workers[w].pc = "done"
    /\ NoEmbedWorkerActive(d)
    /\ progress["embed"][d].status = "complete"

\* one point for every sample with an embedding row
OnePointPerEmbeddedSample(d) ==
    [s \in SampleIds |-> IF embeddings[d][s] > 0 THEN 1 ELSE 0]

\* the step is a search of d or the ensure_collection call of a scan of d
QueriesCollection(d) ==
    \/ /\ datasets[d] # NoDataset
       /\ \E s \in SampleIds : search_similar(d, s, MaxRequests)
    \/ \E w \in 1..Len(workers) :
          /\ workers[w].ds = d
          /\ NearDupEnsure(w)
          /\ workers'[w].pc = "scroll"

C29_QueriedCollectionMatchesEmbeddings ==
    [][\A d \in DatasetIds :
          (EmbedRunCompleted(d) /\ QueriesCollection(d)) =>
              /\ collection'[d].exists
              /\ collection'[d].points = OnePointPerEmbeddedSample(d)]_vars

(***************************************************************************)
(* SpecRelaunch: embed runs observed by a progress stream, every launch    *)
(* requested after the tasks of the earlier launches have returned         *)
(***************************************************************************)
NextRelaunch ==
    \/ \E d \in DatasetIds :
          /\ \A w \in 1..Len(workers) : workers[w].pc = "done"
          /\ LaunchAccepted("embed", d, MaxLaunch)
    \/ \E w \in 1..Len(workers) : WorkerStart(w)
    \/ \E w \in 1..Len(workers) : WorkerCursor(w)
    \/ \E w \in 1..Len(workers) : WorkerCount(w)
    \/ \E w \in 1..Len(workers) : WorkerEmptyStatus(w)
    \/ \E w \in 1..Len(workers) : WorkerEmptyMessage(w)
    \/ \E w \in 1..Len(workers) : EmbedDelete(w)
    \/ \E w \in 1..Len(workers) : EmbedBatch(w)
    \/ \E w \in 1..Len(workers) : WorkerCompleteStatus(w)
    \/ \E w \in 1..Len(workers) : WorkerCompleteProcessed(w)
    \/ \E w \in 1..Len(workers) : WorkerCompleteMessage(w)
    \/ \E w \in 1..Len(workers) : WorkerExceptStatus(w)
    \/ \E w \in 1..Len(workers) : WorkerExceptMessage(w)
    \/ \E d \in DatasetIds : ReadProgress("embed", d)

SpecRelaunch == InitTasks /\ [][NextRelaunch]_vars

(***************************************************************************)
(* C30: a progress stream opened after a launch request for dataset D was  *)
(* accepted (202) closes only on a terminal snapshot written by the task   *)
(* that this launch started: it never closes on the complete or error      *)
(* snapshot left in the progress record by an earlier run of the same task *)
(* type for D.                                                             *)
(***************************************************************************)
TasksOf(kind, d) == {w \in 1..Len(workers) : workers[w].kind = kind /\ workers[w].ds = d}

\* the task started by the latest accepted launch of (kind, d)
LatestTask(kind, d) == CHOOSE w \in TasksOf(kind, d) : \A v \in TasksOf(kind, d) : v <= w

\* the stream of (kind, d) reads a terminal record and closes on it
StreamCloses(kind, d) ==
    /\ ReadProgress(kind, d)
    /\ snapshot'.rec.status \in TerminalStatuses

\* every stream read taken once a launch was accepted, while the tasks of
\* earlier launches have returned, closes only if the task of the latest
\* launch has written its terminal status
C30_StreamClosesOnOwnRun ==
    [][\A k \in TaskKinds, d \in DatasetIds :
          ( /\ TasksOf(k, d) # {}
            /\ Unfinished(k, d) \subseteq {LatestTask(k, d)}
            /\ StreamCloses(k, d) )
          => workers[LatestTask(k, d)].pc \in AfterTerminal]_vars

=========================================================================
